---- MODULE Spec2Model ----
(***************************************************************************)
(* A model of the gsignond SASL plugin (src/src/gsignond-sasl-plugin.c):   *)
(* one GSignondSaslPlugin object, the gsasl sessions it creates, and the   *)
(* session-data dictionaries its caller hands to it.                       *)
(*                                                                         *)
(* Pointers are integers, NULL is 0.  A string pointer that may be NULL    *)
(* is a sequence of length 0 (NULL) or 1 (the string).  Host and realm     *)
(* names are sequences of their dot-separated labels.                      *)
(***************************************************************************)
EXTENDS Integers, Sequences, FiniteSets, TLC

NULL == 0

\* Bounds of the model.
MaxSessions == 2
MaxDicts == 2

VARIABLES
    gsasl_context,  \* self->gsasl_context: NULL or the library context
    gsasl_session,  \* self->gsasl_session: NULL or a session id
    session_data,   \* self->session_data: NULL or a dictionary id
    sessions,       \* the library's sessions, indexed by session id
    heap,           \* the dictionaries: reference count and content
    held,           \* the dictionaries the caller holds a reference to
    signals,        \* the signals emitted by the last operation, in order
    calls,          \* the state-changing library calls of the last operation
    last,           \* the last operation, its arguments, the state before it
                    \* and, for a request, the outcome of the operation before
    finalized       \* the plugin object has been finalized

vars == <<gsasl_context, gsasl_session, session_data, sessions, heap, held,
          signals, calls, last, finalized>>

DictIds == 1..MaxDicts

----------------------------------------------------------------------------
\* Strings that may be NULL.

None == <<>>
Some(v) == <<v>>
IsNull(p) == Len(p) = 0
Val(p) == p[1]

----------------------------------------------------------------------------
\* GSignondDictionary: a mapping from string keys to values.

EmptyDict == [k \in {} |-> ""]

dictionary_get_string(dict, key) ==
    IF key \in DOMAIN dict THEN Some(dict[key]) ELSE None

gsignond_session_data_get_username(dict) == dictionary_get_string(dict, "UserName")
gsignond_session_data_get_secret(dict) == dictionary_get_string(dict, "Secret")
gsignond_session_data_get_realm(dict) == dictionary_get_string(dict, "Realm")
gsignond_session_data_get_allowed_realms(dict) == dictionary_get_string(dict, "AllowedRealms")

\* Taking a reference leaves the count as it is.
dictionary_ref_uncounted(h, d) == h

dictionary_ref(h, d) == [h EXCEPT ![d].refs = @ + 1]

\* The dictionary is destroyed when its last reference is dropped.
dictionary_unref(h, d) ==
    IF h[d].refs = 1
    THEN [h EXCEPT ![d] = [refs |-> 0, data |-> EmptyDict]]
    ELSE [h EXCEPT ![d].refs = @ - 1]

\* host is domain, or a subdomain of it.
gsignond_is_host_in_domain(host, domain) ==
    /\ Len(domain) <= Len(host)
    /\ \A i \in 1..Len(domain) :
          domain[i] = host[Len(host) - Len(domain) + i]

----------------------------------------------------------------------------
\* The sample session data the caller draws from.

User == "megauser@example.com"
Pass == "megapassword"
Domain == <<"example", "com">>
SubHost == <<"mail", "example", "com">>
OtherHost == <<"badexample", "com">>
UpperDomain == <<"EXAMPLE", "com">>

Creds == ("UserName" :> User) @@ ("Secret" :> Pass)
Digest == Creds @@ ("Service" :> "megaservice") @@ ("Hostname" :> SubHost)
                @@ ("AllowedRealms" :> <<UpperDomain, Domain>>)

ParamsPool ==
    { ("AnonymousToken" :> User),
      ("ChallengeBase64" :> "bad"),
      Creds @@ ("ChallengeBase64" :> "good"),
      Digest @@ ("ChallengeBase64" :> "good") @@ ("Realm" :> Domain),
      Digest @@ ("ChallengeBase64" :> "good") @@ ("Realm" :> <<"com">>),
      ("Hostname" :> OtherHost) @@ Digest @@ ("ChallengeBase64" :> "good") }

MechanismNames == {"ANONYMOUS", "PLAIN", "CRAM-MD5", "DIGEST-MD5", "SCRAM-SHA-1", "NTLM-X"}

----------------------------------------------------------------------------
\* The gsasl library: property kinds, mechanisms, sessions.

PropertyKinds ==
    {"GSASL_AUTHID", "GSASL_AUTHZID", "GSASL_PASSWORD", "GSASL_ANONYMOUS_TOKEN",
     "GSASL_SERVICE", "GSASL_HOSTNAME", "GSASL_GSSAPI_DISPLAY_NAME",
     "GSASL_PASSCODE", "GSASL_SUGGESTED_PIN", "GSASL_PIN", "GSASL_REALM",
     "GSASL_DIGEST_MD5_HASHED_PASSWORD", "GSASL_QOPS", "GSASL_QOP",
     "GSASL_SCRAM_ITER", "GSASL_SCRAM_SALT", "GSASL_SCRAM_SALTED_PASSWORD",
     "GSASL_CB_TLS_UNIQUE"}

Req(kind) == [kind |-> kind, req |-> TRUE, unless |-> ""]
Opt(kind) == [kind |-> kind, req |-> FALSE, unless |-> ""]
ReqUnless(kind, other) == [kind |-> kind, req |-> TRUE, unless |-> other]

\* For each mechanism, its client steps: whether the step consumes a server
\* challenge, the properties it asks for (in order), and whether its output
\* is the empty string.
MechSteps(mech) ==
    CASE mech = "ANONYMOUS" ->
           << [challenge |-> FALSE, empty |-> FALSE,
               props |-> << Req("GSASL_ANONYMOUS_TOKEN") >>] >>
      [] mech = "PLAIN" ->
           << [challenge |-> FALSE, empty |-> FALSE,
               props |-> << Opt("GSASL_AUTHZID"), Req("GSASL_AUTHID"),
                            Req("GSASL_PASSWORD") >>] >>
      [] mech = "CRAM-MD5" ->
           << [challenge |-> TRUE, empty |-> FALSE,
               props |-> << Req("GSASL_AUTHID"), Req("GSASL_PASSWORD") >>] >>
      [] mech = "DIGEST-MD5" ->
           << [challenge |-> TRUE, empty |-> FALSE,
               props |-> << Opt("GSASL_REALM"), Opt("GSASL_QOP"),
                            Opt("GSASL_AUTHZID"), Req("GSASL_AUTHID"),
                            Req("GSASL_SERVICE"), Req("GSASL_HOSTNAME"),
                            Req("GSASL_PASSWORD") >>],
              [challenge |-> TRUE, empty |-> TRUE, props |-> << >>] >>
      [] mech = "SCRAM-SHA-1" ->
           << [challenge |-> FALSE, empty |-> FALSE,
               props |-> << Opt("GSASL_CB_TLS_UNIQUE"), Req("GSASL_AUTHID"),
                            Opt("GSASL_AUTHZID") >>],
              [challenge |-> TRUE, empty |-> FALSE,
               props |-> << Opt("GSASL_SCRAM_SALTED_PASSWORD"),
                            ReqUnless("GSASL_PASSWORD",
                                      "GSASL_SCRAM_SALTED_PASSWORD") >>],
              [challenge |-> TRUE, empty |-> TRUE, props |-> << >>] >>
      [] OTHER -> << >>

SupportedMechanisms ==
    {"ANONYMOUS", "PLAIN", "CRAM-MD5", "DIGEST-MD5", "SCRAM-SHA-1"}

\* The result code of a step that lacks a required property.
NoPropertyCode(kind) ==
    CASE kind = "GSASL_ANONYMOUS_TOKEN" -> "GSASL_NO_ANONYMOUS_TOKEN"
      [] kind = "GSASL_AUTHID" -> "GSASL_NO_AUTHID"
      [] kind = "GSASL_PASSWORD" -> "GSASL_NO_PASSWORD"
      [] kind = "GSASL_SERVICE" -> "GSASL_NO_SERVICE"
      [] kind = "GSASL_HOSTNAME" -> "GSASL_NO_HOSTNAME"
      [] OTHER -> "GSASL_NO_CALLBACK"

SessionIds == 1..MaxSessions

\* The memory of a session: free, alive (allocated by gsasl_client_start and
\* not yet finished), or corrupt (finished twice).
FreeSession == [mech |-> "", step |-> 0, props |-> EmptyDict, status |-> "free"]
NewSession(mech) ==
    [mech |-> mech, step |-> 0, props |-> EmptyDict, status |-> "alive"]

\* gsasl_finish frees the session.
gsasl_finish(ss, sid) ==
    [ss EXCEPT ![sid] = IF @.status = "alive"
                        THEN FreeSession
                        ELSE [FreeSession EXCEPT !.status = "corrupt"]]

FreeSessions(ss) == {i \in SessionIds : ss[i].status = "free"}
AliveSessions(ss) == {i \in SessionIds : ss[i].status = "alive"}

\* gsasl_client_start: a new session for a known mechanism; *sctx is written
\* only on success.  The allocation fails when no memory is free, or when
\* fault says so.
gsasl_client_start(ss, mechanism, fault) ==
    IF fault \/ FreeSessions(ss) = {}
    THEN [res |-> "GSASL_MALLOC_ERROR", sessions |-> ss, sid |-> NULL]
    ELSE IF mechanism \notin SupportedMechanisms
    THEN [res |-> "GSASL_UNKNOWN_MECHANISM", sessions |-> ss, sid |-> NULL]
    ELSE LET sid == CHOOSE i \in FreeSessions(ss) :
                        \A j \in FreeSessions(ss) : i <= j
         IN  [res |-> "GSASL_OK",
              sessions |-> [ss EXCEPT ![sid] = NewSession(mechanism)],
              sid |-> sid]

----------------------------------------------------------------------------
\* The property callback of the plugin.

\* The table with GSASL_QOPS read from the key of GSASL_QOP.
PropertyKey_typo(kind) ==
    CASE kind = "GSASL_AUTHID" -> "UserName"
      [] kind = "GSASL_AUTHZID" -> "Authzid"
      [] kind = "GSASL_PASSWORD" -> "Secret"
      [] kind = "GSASL_ANONYMOUS_TOKEN" -> "AnonymousToken"
      [] kind = "GSASL_SERVICE" -> "Service"
      [] kind = "GSASL_HOSTNAME" -> "Hostname"
      [] kind = "GSASL_GSSAPI_DISPLAY_NAME" -> "GssapiDisplayName"
      [] kind = "GSASL_PASSCODE" -> "Passcode"
      [] kind = "GSASL_SUGGESTED_PIN" -> "SuggestedPin"
      [] kind = "GSASL_PIN" -> "Pin"
      [] kind = "GSASL_REALM" -> "Realm"
      [] kind = "GSASL_DIGEST_MD5_HASHED_PASSWORD" -> "DigestMd5HashedPassword"
      [] kind = "GSASL_QOPS" -> "Qop"
      [] kind = "GSASL_QOP" -> "Qop"
      [] kind = "GSASL_SCRAM_ITER" -> "ScramIter"
      [] kind = "GSASL_SCRAM_SALT" -> "ScramSalt"
      [] kind = "GSASL_SCRAM_SALTED_PASSWORD" -> "ScramSaltedPassword"
      [] kind = "GSASL_CB_TLS_UNIQUE" -> "CbTlsUnique"

PropertyKey(kind) ==
    CASE kind = "GSASL_AUTHID" -> "UserName"
      [] kind = "GSASL_AUTHZID" -> "Authzid"
      [] kind = "GSASL_PASSWORD" -> "Secret"
      [] kind = "GSASL_ANONYMOUS_TOKEN" -> "AnonymousToken"
      [] kind = "GSASL_SERVICE" -> "Service"
      [] kind = "GSASL_HOSTNAME" -> "Hostname"
      [] kind = "GSASL_GSSAPI_DISPLAY_NAME" -> "GssapiDisplayName"
      [] kind = "GSASL_PASSCODE" -> "Passcode"
      [] kind = "GSASL_SUGGESTED_PIN" -> "SuggestedPin"
      [] kind = "GSASL_PIN" -> "Pin"
      [] kind = "GSASL_REALM" -> "Realm"
      [] kind = "GSASL_DIGEST_MD5_HASHED_PASSWORD" -> "DigestMd5HashedPassword"
      [] kind = "GSASL_QOPS" -> "Qops"
      [] kind = "GSASL_QOP" -> "Qop"
      [] kind = "GSASL_SCRAM_ITER" -> "ScramIter"
      [] kind = "GSASL_SCRAM_SALT" -> "ScramSalt"
      [] kind = "GSASL_SCRAM_SALTED_PASSWORD" -> "ScramSaltedPassword"
      [] kind = "GSASL_CB_TLS_UNIQUE" -> "CbTlsUnique"

\* _set_gsasl_property: set holds the value handed to gsasl_property_set.
set_gsasl_property(value) ==
    IF IsNull(value)
    THEN [res |-> "GSASL_NO_CALLBACK", set |-> None]
    ELSE [res |-> "GSASL_OK", set |-> value]

\* _gsasl_callback, for the plugin whose session_data is sd in heap h.
gsasl_callback(h, sd, gsasl_property) ==
    IF sd = NULL
    THEN [res |-> "GSASL_NO_CALLBACK", set |-> None]
    ELSE IF gsasl_property \in PropertyKinds
    THEN set_gsasl_property(
             dictionary_get_string(h[sd].data, PropertyKey(gsasl_property)))
    ELSE [res |-> "GSASL_NO_CALLBACK", set |-> None]

----------------------------------------------------------------------------
\* One step of a mechanism.

\* gsasl_property_get for the entries i.. of reqs, in order: a property the
\* session already holds is not asked for again; the first required property
\* the callback does not supply ends the step.
RECURSIVE FetchProps(_, _, _, _, _)
FetchProps(props, h, sd, reqs, i) ==
    IF i > Len(reqs)
    THEN [props |-> props, err |-> ""]
    ELSE LET e == reqs[i] IN
         IF e.unless # "" /\ e.unless \in DOMAIN props
         THEN FetchProps(props, h, sd, reqs, i + 1)
         ELSE IF e.kind \in DOMAIN props
         THEN FetchProps(props, h, sd, reqs, i + 1)
         ELSE LET r == gsasl_callback(h, sd, e.kind) IN
              IF r.res = "GSASL_OK"
              THEN FetchProps(props @@ (e.kind :> Val(r.set)), h, sd, reqs, i + 1)
              ELSE IF e.req
              THEN [props |-> props, err |-> NoPropertyCode(e.kind)]
              ELSE FetchProps(props, h, sd, reqs, i + 1)

StepKinds(sp) == {sp.props[i].kind : i \in 1..Len(sp.props)}

\* The output of a step: empty, or determined by the mechanism, the round and
\* the property values the step used.
StepOutput(mech, n, sp, props) ==
    IF sp.empty THEN <<>>
    ELSE <<mech, n, [k \in StepKinds(sp) \cap DOMAIN props |-> props[k]]>>

\* gsasl_step64 on session sid with the base64 challenge (or NULL), on behalf
\* of the plugin whose session_data is sd.
gsasl_step64(ss, sid, challenge, h, sd) ==
    LET s == IF sid \in SessionIds THEN ss[sid] ELSE FreeSession
        steps == MechSteps(s.mech)
    IN  IF s.step >= Len(steps)
        THEN [res |-> "GSASL_MECHANISM_CALLED_TOO_MANY_TIMES",
              output |-> <<>>, sessions |-> ss]
        ELSE LET sp == steps[s.step + 1] IN
             IF sp.challenge /\ IsNull(challenge)
             THEN IF s.step = 0
                  THEN [res |-> "GSASL_NEEDS_MORE", output |-> <<>>,
                        sessions |-> ss]
                  ELSE [res |-> "GSASL_MECHANISM_PARSE_ERROR",
                        output |-> <<>>, sessions |-> ss]
             ELSE IF sp.challenge /\ Val(challenge) # "good"
             THEN [res |-> "GSASL_MECHANISM_PARSE_ERROR", output |-> <<>>,
                   sessions |-> ss]
             ELSE LET f == FetchProps(s.props, h, sd, sp.props, 1) IN
                  IF f.err # ""
                  THEN [res |-> f.err, output |-> <<>>,
                        sessions |-> [ss EXCEPT ![sid].props = f.props]]
                  ELSE [res |-> IF s.step + 1 = Len(steps)
                                THEN "GSASL_OK" ELSE "GSASL_NEEDS_MORE",
                        output |-> StepOutput(s.mech, s.step + 1, sp, f.props),
                        sessions |-> [ss EXCEPT ![sid].props = f.props,
                                                ![sid].step = @ + 1]]

----------------------------------------------------------------------------
\* The plugin.  An operation maps the state st it starts in to the state it
\* ends in: st holds the plugin's fields, the library's sessions, the heap,
\* and the signals and library calls of the operation so far.

Error(code, msg) ==
    [sig |-> "error", code |-> code, msg |-> msg, data |-> EmptyDict]
Response(sig, response) ==
    [sig |-> sig, code |-> "", msg |-> <<>>, data |-> response]

gsignond_plugin_error(st, code, msg) ==
    [st EXCEPT !.signals = Append(@, Error(code, msg))]
gsignond_plugin_response(st, response) ==
    [st EXCEPT !.signals = Append(@, Response("response", response))]
gsignond_plugin_response_final(st, response) ==
    [st EXCEPT !.signals = Append(@, Response("response-final", response))]

\* reset_session that releases the session data only.
reset_session_data_only(st) ==
    IF st.session_data # NULL
    THEN [st EXCEPT !.heap = dictionary_unref(@, st.session_data),
                    !.calls = Append(@, <<"dictionary_unref", st.session_data>>),
                    !.session_data = NULL]
    ELSE st

\* reset_session that forgets the session without finishing it.
reset_session_leak(st) ==
    LET st1 == IF st.session_data # NULL
               THEN [st EXCEPT !.heap = dictionary_unref(@, st.session_data),
                               !.calls = Append(@, <<"dictionary_unref",
                                                      st.session_data>>),
                               !.session_data = NULL]
               ELSE st
    IN  [st1 EXCEPT !.gsasl_session = NULL]

\* reset_session that finishes the session and keeps the session data.
reset_session_keep_data(st) ==
    IF st.gsasl_session # NULL
    THEN [st EXCEPT !.sessions = gsasl_finish(@, st.gsasl_session),
                    !.calls = Append(@, <<"gsasl_finish", st.gsasl_session>>),
                    !.gsasl_session = NULL]
    ELSE st

reset_session(st) ==
    LET st1 == IF st.session_data # NULL
               THEN [st EXCEPT !.heap = dictionary_unref(@, st.session_data),
                               !.calls = Append(@, <<"dictionary_unref",
                                                      st.session_data>>),
                               !.session_data = NULL]
               ELSE st
    IN  IF st1.gsasl_session # NULL
        THEN [st1 EXCEPT !.sessions = gsasl_finish(@, st1.gsasl_session),
                         !.calls = Append(@, <<"gsasl_finish", st1.gsasl_session>>),
                         !.gsasl_session = NULL]
        ELSE st1

\* cancel that tears the session down before it reports.
gsignond_sasl_plugin_cancel_reset(st) ==
    gsignond_plugin_error(reset_session(st), "GSIGNOND_ERROR_SESSION_CANCELED",
                          <<"Session canceled">>)

\* cancel that reports only when a session is active.
gsignond_sasl_plugin_cancel_if_active(st) ==
    IF st.gsasl_session = NULL THEN st
    ELSE gsignond_plugin_error(st, "GSIGNOND_ERROR_SESSION_CANCELED",
                               <<"Session canceled">>)

gsignond_sasl_plugin_cancel(st) ==
    gsignond_plugin_error(st, "GSIGNOND_ERROR_SESSION_CANCELED",
                          <<"Session canceled">>)

\* do_gsasl_iteration that keeps the session after the final step.
do_gsasl_iteration_no_reset(st, challenge) ==
    LET r == gsasl_step64(st.sessions, st.gsasl_session, challenge,
                          st.heap, st.session_data)
        st1 == [st EXCEPT !.sessions = r.sessions,
                          !.calls = Append(@, <<"gsasl_step64", st.gsasl_session,
                                                 challenge, r.res, r.output>>)]
    IN  IF r.res # "GSASL_OK" /\ r.res # "GSASL_NEEDS_MORE"
        THEN gsignond_plugin_error(st1, "GSIGNOND_ERROR_NOT_AUTHORIZED",
                                   <<"Authorization error %d", r.res>>)
        ELSE LET response == ("ResponseBase64" :> r.output) IN
             IF r.res = "GSASL_OK"
             THEN gsignond_plugin_response_final(st1, response)
             ELSE gsignond_plugin_response(st1, response)

\* do_gsasl_iteration that resets the session after every successful step.
do_gsasl_iteration_reset_always(st, challenge) ==
    LET r == gsasl_step64(st.sessions, st.gsasl_session, challenge,
                          st.heap, st.session_data)
        st1 == [st EXCEPT !.sessions = r.sessions,
                          !.calls = Append(@, <<"gsasl_step64", st.gsasl_session,
                                                 challenge, r.res, r.output>>)]
    IN  IF r.res # "GSASL_OK" /\ r.res # "GSASL_NEEDS_MORE"
        THEN gsignond_plugin_error(st1, "GSIGNOND_ERROR_NOT_AUTHORIZED",
                                   <<"Authorization error %d", r.res>>)
        ELSE LET response == ("ResponseBase64" :> r.output) IN
             IF r.res = "GSASL_OK"
             THEN gsignond_plugin_response_final(reset_session(st1), response)
             ELSE gsignond_plugin_response(reset_session(st1), response)

\* do_gsasl_iteration that resets the session when the step fails.
do_gsasl_iteration_reset_on_error(st, challenge) ==
    LET r == gsasl_step64(st.sessions, st.gsasl_session, challenge,
                          st.heap, st.session_data)
        st1 == [st EXCEPT !.sessions = r.sessions,
                          !.calls = Append(@, <<"gsasl_step64", st.gsasl_session,
                                                 challenge, r.res, r.output>>)]
    IN  IF r.res # "GSASL_OK" /\ r.res # "GSASL_NEEDS_MORE"
        THEN gsignond_plugin_error(reset_session(st1),
                                   "GSIGNOND_ERROR_NOT_AUTHORIZED",
                                   <<"Authorization error %d", r.res>>)
        ELSE LET response == ("ResponseBase64" :> r.output) IN
             IF r.res = "GSASL_OK"
             THEN gsignond_plugin_response_final(reset_session(st1), response)
             ELSE gsignond_plugin_response(st1, response)

\* do_gsasl_iteration that puts the response into the retained dictionary.
do_gsasl_iteration_reuse_dict(st, challenge) ==
    LET r == gsasl_step64(st.sessions, st.gsasl_session, challenge,
                          st.heap, st.session_data)
        st1 == [st EXCEPT !.sessions = r.sessions,
                          !.calls = Append(@, <<"gsasl_step64", st.gsasl_session,
                                                 challenge, r.res, r.output>>)]
    IN  IF r.res # "GSASL_OK" /\ r.res # "GSASL_NEEDS_MORE"
        THEN gsignond_plugin_error(st1, "GSIGNOND_ERROR_NOT_AUTHORIZED",
                                   <<"Authorization error %d", r.res>>)
        ELSE LET response == ("ResponseBase64" :> r.output)
                 st2 == [st1 EXCEPT !.heap[st.session_data].data = response @@ @]
             IN  IF r.res = "GSASL_OK"
                 THEN gsignond_plugin_response_final(reset_session(st2), response)
                 ELSE gsignond_plugin_response(st2, response)

\* do_gsasl_iteration without the test for a failed step.
do_gsasl_iteration_ignore_error(st, challenge) ==
    LET r == gsasl_step64(st.sessions, st.gsasl_session, challenge,
                          st.heap, st.session_data)
        st1 == [st EXCEPT !.sessions = r.sessions,
                          !.calls = Append(@, <<"gsasl_step64", st.gsasl_session,
                                                 challenge, r.res, r.output>>)]
        response == ("ResponseBase64" :> r.output)
    IN  IF r.res = "GSASL_OK"
        THEN gsignond_plugin_response_final(reset_session(st1), response)
        ELSE gsignond_plugin_response(st1, response)

do_gsasl_iteration(st, challenge) ==
    LET r == gsasl_step64(st.sessions, st.gsasl_session, challenge,
                          st.heap, st.session_data)
        st1 == [st EXCEPT !.sessions = r.sessions,
                          !.calls = Append(@, <<"gsasl_step64", st.gsasl_session,
                                                 challenge, r.res, r.output>>)]
    IN  IF r.res # "GSASL_OK" /\ r.res # "GSASL_NEEDS_MORE"
        THEN gsignond_plugin_error(st1, "GSIGNOND_ERROR_NOT_AUTHORIZED",
                                   <<"Authorization error %d", r.res>>)
        ELSE LET response == ("ResponseBase64" :> r.output) IN
             IF r.res = "GSASL_OK"
             THEN gsignond_plugin_response_final(reset_session(st1), response)
             ELSE gsignond_plugin_response(st1, response)

\* request without the return after the WrongState error.
gsignond_sasl_plugin_request_no_return(st, d) ==
    do_gsasl_iteration(
        IF st.gsasl_session = NULL
        THEN gsignond_plugin_error(st, "GSIGNOND_ERROR_WRONG_STATE",
                 <<"request_initial needs to be issued first">>)
        ELSE st,
        dictionary_get_string(st.heap[d].data, "ChallengeBase64"))

\* request that takes the dictionary of the call for the session data.
gsignond_sasl_plugin_request_use_params(st, d) ==
    IF st.gsasl_session = NULL
    THEN gsignond_plugin_error(st, "GSIGNOND_ERROR_WRONG_STATE",
                               <<"request_initial needs to be issued first">>)
    ELSE do_gsasl_iteration([st EXCEPT !.session_data = d],
             dictionary_get_string(st.heap[d].data, "ChallengeBase64"))

\* request that reads the challenge from the key Challenge.
gsignond_sasl_plugin_request_wrong_key(st, d) ==
    IF st.gsasl_session = NULL
    THEN gsignond_plugin_error(st, "GSIGNOND_ERROR_WRONG_STATE",
                               <<"request_initial needs to be issued first">>)
    ELSE do_gsasl_iteration(st,
             dictionary_get_string(st.heap[d].data, "Challenge"))

\* request that responds without stepping the session.
gsignond_sasl_plugin_request_no_step(st, d) ==
    IF st.gsasl_session = NULL
    THEN gsignond_plugin_error(st, "GSIGNOND_ERROR_WRONG_STATE",
                               <<"request_initial needs to be issued first">>)
    ELSE gsignond_plugin_response(st, ("ResponseBase64" :> <<>>))

\* request that seeds the step with the challenge of the retained session
\* data.
gsignond_sasl_plugin_request_retained_challenge(st, d) ==
    IF st.gsasl_session = NULL
    THEN gsignond_plugin_error(st, "GSIGNOND_ERROR_WRONG_STATE",
                               <<"request_initial needs to be issued first">>)
    ELSE do_gsasl_iteration(st,
             dictionary_get_string(st.heap[st.session_data].data,
                                   "ChallengeBase64"))

gsignond_sasl_plugin_request(st, d) ==
    IF st.gsasl_session = NULL
    THEN gsignond_plugin_error(st, "GSIGNOND_ERROR_WRONG_STATE",
                               <<"request_initial needs to be issued first">>)
    ELSE do_gsasl_iteration(st,
             dictionary_get_string(st.heap[d].data, "ChallengeBase64"))

\* realm_ok without the comparison of the realm.
realm_ok_any(realm, allowed_realms) ==
    /\ ~IsNull(allowed_realms)
    /\ ~IsNull(realm)
    /\ Len(Val(allowed_realms)) > 0

\* realm_ok that takes any realm for allowed when there is no list.
realm_ok_without_list(realm, allowed_realms) ==
    \/ IsNull(allowed_realms)
    \/ /\ ~IsNull(realm)
       /\ \E i \in 1..Len(Val(allowed_realms)) :
             Val(realm) = Val(allowed_realms)[i]

\* The authorization check of request_initial: the values of realm_ok and
\* host_ok after the loop over the allowed realms.
realm_ok(realm, allowed_realms) ==
    /\ ~IsNull(allowed_realms)
    /\ ~IsNull(realm)
    /\ \E i \in 1..Len(Val(allowed_realms)) :
          Val(realm) = Val(allowed_realms)[i]

\* host_ok without the domain test.
host_ok_any(host, allowed_realms) ==
    /\ ~IsNull(allowed_realms)
    /\ ~IsNull(host)
    /\ Len(Val(allowed_realms)) > 0

\* host_ok that takes the host for allowed only when it equals an entry.
host_ok_exact(host, allowed_realms) ==
    /\ ~IsNull(allowed_realms)
    /\ ~IsNull(host)
    /\ \E i \in 1..Len(Val(allowed_realms)) :
          Val(host) = Val(allowed_realms)[i]

host_ok(host, allowed_realms) ==
    /\ ~IsNull(allowed_realms)
    /\ ~IsNull(host)
    /\ \E i \in 1..Len(Val(allowed_realms)) :
          gsignond_is_host_in_domain(Val(host), Val(allowed_realms)[i])

\* request_initial that does not retain the session data.
gsignond_sasl_plugin_request_initial_no_retain(st, d, mechanism, fault) ==
    IF st.gsasl_context = NULL
    THEN gsignond_plugin_error(st, "GSIGNOND_ERROR_OPERATION_NOT_SUPPORTED",
                               <<"Couldn't initialize gsasl library">>)
    ELSE
    LET sd == st.heap[d].data
        realm == gsignond_session_data_get_realm(sd)
        host == dictionary_get_string(sd, "Hostname")
        allowed_realms == gsignond_session_data_get_allowed_realms(sd)
    IN  IF ~IsNull(realm) /\ ~realm_ok(realm, allowed_realms)
        THEN gsignond_plugin_error(st, "GSIGNOND_ERROR_NOT_AUTHORIZED",
                                   <<"Unauthorized realm">>)
        ELSE IF ~IsNull(host) /\ ~host_ok(host, allowed_realms)
        THEN gsignond_plugin_error(st, "GSIGNOND_ERROR_NOT_AUTHORIZED",
                                   <<"Unauthorized hostname">>)
        ELSE
        LET st1 == reset_session(st)
            r == gsasl_client_start(st1.sessions, mechanism, fault)
            st2 == [st1 EXCEPT !.sessions = r.sessions,
                               !.calls = Append(@, <<"gsasl_client_start",
                                                      mechanism, r.res>>),
                               !.gsasl_session =
                                   IF r.res = "GSASL_OK" THEN r.sid ELSE @]
        IN  IF r.res # "GSASL_OK"
            THEN gsignond_plugin_error(st2,
                     "GSIGNOND_ERROR_OPERATION_NOT_SUPPORTED",
                     <<"Couldn't initialize gsasl session, error %d", r.res>>)
            ELSE do_gsasl_iteration(st2,
                     dictionary_get_string(sd, "ChallengeBase64"))

\* request_initial that tests the hostname before the realm.
gsignond_sasl_plugin_request_initial_host_first(st, d, mechanism, fault) ==
    IF st.gsasl_context = NULL
    THEN gsignond_plugin_error(st, "GSIGNOND_ERROR_OPERATION_NOT_SUPPORTED",
                               <<"Couldn't initialize gsasl library">>)
    ELSE
    LET sd == st.heap[d].data
        realm == gsignond_session_data_get_realm(sd)
        host == dictionary_get_string(sd, "Hostname")
        allowed_realms == gsignond_session_data_get_allowed_realms(sd)
    IN  IF ~IsNull(host) /\ ~host_ok(host, allowed_realms)
        THEN gsignond_plugin_error(st, "GSIGNOND_ERROR_NOT_AUTHORIZED",
                                   <<"Unauthorized hostname">>)
        ELSE IF ~IsNull(realm) /\ ~realm_ok(realm, allowed_realms)
        THEN gsignond_plugin_error(st, "GSIGNOND_ERROR_NOT_AUTHORIZED",
                                   <<"Unauthorized realm">>)
        ELSE
        LET st1 == reset_session(st)
            r == gsasl_client_start(st1.sessions, mechanism, fault)
            st2 == [st1 EXCEPT !.sessions = r.sessions,
                               !.calls = Append(@, <<"gsasl_client_start",
                                                      mechanism, r.res>>),
                               !.gsasl_session =
                                   IF r.res = "GSASL_OK" THEN r.sid ELSE @]
        IN  IF r.res # "GSASL_OK"
            THEN gsignond_plugin_error(st2,
                     "GSIGNOND_ERROR_OPERATION_NOT_SUPPORTED",
                     <<"Couldn't initialize gsasl session, error %d", r.res>>)
            ELSE do_gsasl_iteration(
                     [st2 EXCEPT !.heap = dictionary_ref(@, d),
                                 !.calls = Append(@, <<"dictionary_ref", d>>),
                                 !.session_data = d],
                     dictionary_get_string(sd, "ChallengeBase64"))

\* request_initial that retains a copy of the session data.
gsignond_sasl_plugin_request_initial_copy(st, d, mechanism, fault) ==
    IF st.gsasl_context = NULL
    THEN gsignond_plugin_error(st, "GSIGNOND_ERROR_OPERATION_NOT_SUPPORTED",
                               <<"Couldn't initialize gsasl library">>)
    ELSE
    LET sd == st.heap[d].data
        realm == gsignond_session_data_get_realm(sd)
        host == dictionary_get_string(sd, "Hostname")
        allowed_realms == gsignond_session_data_get_allowed_realms(sd)
    IN  IF ~IsNull(realm) /\ ~realm_ok(realm, allowed_realms)
        THEN gsignond_plugin_error(st, "GSIGNOND_ERROR_NOT_AUTHORIZED",
                                   <<"Unauthorized realm">>)
        ELSE IF ~IsNull(host) /\ ~host_ok(host, allowed_realms)
        THEN gsignond_plugin_error(st, "GSIGNOND_ERROR_NOT_AUTHORIZED",
                                   <<"Unauthorized hostname">>)
        ELSE
        LET st1 == reset_session(st)
            r == gsasl_client_start(st1.sessions, mechanism, fault)
            st2 == [st1 EXCEPT !.sessions = r.sessions,
                               !.calls = Append(@, <<"gsasl_client_start",
                                                      mechanism, r.res>>),
                               !.gsasl_session =
                                   IF r.res = "GSASL_OK" THEN r.sid ELSE @]
        IN  IF r.res # "GSASL_OK"
            THEN gsignond_plugin_error(st2,
                     "GSIGNOND_ERROR_OPERATION_NOT_SUPPORTED",
                     <<"Couldn't initialize gsasl session, error %d", r.res>>)
            ELSE do_gsasl_iteration(
                     LET free == {c \in DOMAIN st2.heap : st2.heap[c].refs = 0}
                         copy == IF free = {} THEN d ELSE CHOOSE c \in free : TRUE
                     IN  [st2 EXCEPT !.heap = [@ EXCEPT ![copy] =
                                                   [refs |-> 1, data |-> sd]],
                                     !.calls = Append(@, <<"dictionary_ref", d>>),
                                     !.session_data = copy],
                     dictionary_get_string(sd, "ChallengeBase64"))

gsignond_sasl_plugin_request_initial(st, d, mechanism, fault) ==
    IF st.gsasl_context = NULL
    THEN gsignond_plugin_error(st, "GSIGNOND_ERROR_OPERATION_NOT_SUPPORTED",
                               <<"Couldn't initialize gsasl library">>)
    ELSE
    LET sd == st.heap[d].data
        realm == gsignond_session_data_get_realm(sd)
        host == dictionary_get_string(sd, "Hostname")
        allowed_realms == gsignond_session_data_get_allowed_realms(sd)
    IN  IF ~IsNull(realm) /\ ~realm_ok(realm, allowed_realms)
        THEN gsignond_plugin_error(st, "GSIGNOND_ERROR_NOT_AUTHORIZED",
                                   <<"Unauthorized realm">>)
        ELSE IF ~IsNull(host) /\ ~host_ok(host, allowed_realms)
        THEN gsignond_plugin_error(st, "GSIGNOND_ERROR_NOT_AUTHORIZED",
                                   <<"Unauthorized hostname">>)
        ELSE
        LET st1 == reset_session(st)
            r == gsasl_client_start(st1.sessions, mechanism, fault)
            st2 == [st1 EXCEPT !.sessions = r.sessions,
                               !.calls = Append(@, <<"gsasl_client_start",
                                                      mechanism, r.res>>),
                               !.gsasl_session =
                                   IF r.res = "GSASL_OK" THEN r.sid ELSE @]
        IN  IF r.res # "GSASL_OK"
            THEN gsignond_plugin_error(st2,
                     "GSIGNOND_ERROR_OPERATION_NOT_SUPPORTED",
                     <<"Couldn't initialize gsasl session, error %d", r.res>>)
            ELSE do_gsasl_iteration(
                     [st2 EXCEPT !.heap = dictionary_ref(@, d),
                                 !.calls = Append(@, <<"dictionary_ref", d>>),
                                 !.session_data = d],
                     dictionary_get_string(sd, "ChallengeBase64"))

\* user_action_finished that emits nothing.
gsignond_sasl_plugin_user_action_finished_silent(st, d) == st

gsignond_sasl_plugin_user_action_finished(st, d) ==
    gsignond_plugin_error(st, "GSIGNOND_ERROR_WRONG_STATE",
                          <<"SASL plugin doesn't support user actions">>)

\* refresh that steps the session as request does.
gsignond_sasl_plugin_refresh_as_request(st, d) ==
    gsignond_sasl_plugin_request(st, d)

gsignond_sasl_plugin_refresh(st, d) ==
    gsignond_plugin_error(st, "GSIGNOND_ERROR_WRONG_STATE",
                          <<"SASL plugin doesn't support refresh">>)

\* gsignond_sasl_plugin_init: gsasl_init succeeds (ok) or fails.
gsignond_sasl_plugin_init(ok) ==
    [gsasl_context |-> IF ok THEN 1 ELSE NULL, gsasl_session |-> NULL,
     session_data |-> NULL]

\* finalize that does not reset the session.
gsignond_sasl_plugin_finalize_no_reset(st) == st

gsignond_sasl_plugin_finalize(st) == reset_session(st)

----------------------------------------------------------------------------
\* The state machine.

\* The state an operation starts in.
Begin ==
    [gsasl_context |-> gsasl_context, gsasl_session |-> gsasl_session,
     session_data |-> session_data, sessions |-> sessions, heap |-> heap,
     signals |-> <<>>, calls |-> <<>>]

\* What an operation did, in one word: the signal it emitted and, for an
\* error, what failed.
Outcome(op, sigs, cs) ==
    IF Len(sigs) # 1 THEN "other"
    ELSE IF sigs[1].sig # "error" THEN sigs[1].sig
    ELSE IF sigs[1].code = "GSIGNOND_ERROR_NOT_AUTHORIZED"
    THEN (IF Len(cs) = 0 THEN "unauthorized" ELSE "step-failed")
    ELSE IF sigs[1].code = "GSIGNOND_ERROR_OPERATION_NOT_SUPPORTED"
    THEN (IF Len(cs) = 0 THEN "no-library" ELSE "start-failed")
    ELSE IF sigs[1].code = "GSIGNOND_ERROR_SESSION_CANCELED" THEN "canceled"
    ELSE "wrong-state"

\* The state an operation op(d, mechanism) ends in st.
End(st, op, d, mechanism) ==
    /\ gsasl_context' = st.gsasl_context
    /\ gsasl_session' = st.gsasl_session
    /\ session_data' = st.session_data
    /\ sessions' = st.sessions
    /\ heap' = st.heap
    /\ signals' = st.signals
    /\ calls' = st.calls
    /\ last' = [op |-> op, d |-> d, mechanism |-> mechanism,
                gsasl_session |-> gsasl_session,
                session_data |-> session_data,
                sessions |-> sessions,
                heap |-> heap,
                prev |-> IF op = "request"
                         THEN Outcome(last.op, signals, calls) ELSE "none"]

\* No operation yet, or the caller has touched its dictionaries since.
NoOp == [op |-> "none", d |-> NULL, mechanism |-> "",
         gsasl_session |-> NULL, session_data |-> NULL,
         sessions |-> <<>>, heap |-> <<>>, prev |-> "none"]

Init ==
    /\ \E ok \in BOOLEAN :
          LET self == gsignond_sasl_plugin_init(ok) IN
          /\ gsasl_context = self.gsasl_context
          /\ gsasl_session = self.gsasl_session
          /\ session_data = self.session_data
    /\ sessions = [i \in SessionIds |-> FreeSession]
    /\ heap = [d \in DictIds |-> [refs |-> 0, data |-> EmptyDict]]
    /\ held = {}
    /\ signals = <<>>
    /\ calls = <<>>
    /\ last = NoOp
    /\ finalized = FALSE

RequestInitial ==
    /\ ~finalized
    /\ \E d \in held, mechanism \in MechanismNames, fault \in BOOLEAN :
          /\ fault => mechanism = "PLAIN"
          /\ End(gsignond_sasl_plugin_request_initial(Begin, d, mechanism, fault),
                 "request_initial", d, mechanism)
    /\ UNCHANGED <<held, finalized>>

Request ==
    /\ ~finalized
    /\ \E d \in held :
          End(gsignond_sasl_plugin_request(Begin, d), "request", d, "")
    /\ UNCHANGED <<held, finalized>>

Cancel ==
    /\ ~finalized
    /\ End(gsignond_sasl_plugin_cancel(Begin), "cancel", NULL, "")
    /\ UNCHANGED <<held, finalized>>

UserActionFinished ==
    /\ ~finalized
    /\ \E d \in held :
          End(gsignond_sasl_plugin_user_action_finished(Begin, d),
              "user_action_finished", d, "")
    /\ UNCHANGED <<held, finalized>>

Refresh ==
    /\ ~finalized
    /\ \E d \in held :
          End(gsignond_sasl_plugin_refresh(Begin, d), "refresh", d, "")
    /\ UNCHANGED <<held, finalized>>

Finalize ==
    /\ ~finalized
    /\ End(gsignond_sasl_plugin_finalize(Begin), "finalize", NULL, "")
    /\ finalized' = TRUE
    /\ UNCHANGED held

\* The caller creates a dictionary with some content and holds a reference.
CallerNew ==
    /\ \E d \in DictIds, content \in ParamsPool :
          /\ heap[d].refs = 0
          /\ \A e \in DictIds : e < d => heap[e].refs > 0
          /\ heap' = [heap EXCEPT ![d] = [refs |-> 1, data |-> content]]
          /\ held' = held \cup {d}
    /\ signals' = <<>>
    /\ calls' = <<>>
    /\ last' = NoOp
    /\ UNCHANGED <<gsasl_context, gsasl_session, session_data, sessions, finalized>>

\* The caller drops its reference to a dictionary.
CallerUnref ==
    /\ \E d \in held :
          /\ heap' = dictionary_unref(heap, d)
          /\ held' = held \ {d}
    /\ signals' = <<>>
    /\ calls' = <<>>
    /\ last' = NoOp
    /\ UNCHANGED <<gsasl_context, gsasl_session, session_data, sessions, finalized>>

Next ==
    \/ RequestInitial
    \/ Request
    \/ Cancel
    \/ UserActionFinished
    \/ Refresh
    \/ Finalize
    \/ CallerNew
    \/ CallerUnref

Spec == Init /\ [][Next]_vars

TypeOK ==
    /\ gsasl_context \in {NULL, 1}
    /\ gsasl_session \in 0..MaxSessions
    /\ session_data \in {NULL} \cup DictIds
    /\ held \subseteq DictIds

----------------------------------------------------------------------------
\* What the last operation did.

OneError(code) ==
    /\ Len(signals) = 1
    /\ signals[1].sig = "error"
    /\ signals[1].code = code

OneResponse(sig, output) ==
    /\ Len(signals) = 1
    /\ signals[1].sig = sig
    /\ signals[1].data = ("ResponseBase64" :> output)

\* The positions in calls of the calls of a library function.
CallsOf(f) == {i \in 1..Len(calls) : calls[i][1] = f}

\* calls[i] is a gsasl_step64 call: its session, challenge, result, output.
StepSession(i) == calls[i][2]
StepChallenge(i) == calls[i][3]
StepResult(i) == calls[i][4]
StepOutput64(i) == calls[i][5]

\* The session data the plugin retained when the step of the last operation
\* began.
RetainedAtStep == IF last.op = "request_initial" THEN last.d ELSE last.session_data

----------------------------------------------------------------------------
\* C1: a request while the plugin has no session emits exactly one error,
\* GSIGNOND_ERROR_WRONG_STATE, calls no library function (no step) and leaves
\* the plugin, the library's sessions and the dictionaries as they were.
C1_RequestWithoutSession ==
    (last.op = "request" /\ last.gsasl_session = NULL) =>
        /\ OneError("GSIGNOND_ERROR_WRONG_STATE")
        /\ calls = <<>>
        /\ gsasl_session = NULL
        /\ session_data = last.session_data
        /\ sessions = last.sessions
        /\ heap = last.heap

\* A request right after a response-final was refused.
C1_Witness ==
    /\ last.op = "request"
    /\ last.gsasl_session = NULL
    /\ last.prev = "response-final"
    /\ OneError("GSIGNOND_ERROR_WRONG_STATE")

\* C2: at most one session of the library is alive; a request_initial that
\* calls gsasl_client_start has before that call finished the session the
\* plugin had and dropped its reference to the session data it retained.
C2_AtMostOneSession ==
    /\ Cardinality(AliveSessions(sessions)) <= 1
    /\ \A i \in CallsOf("gsasl_client_start") :
          /\ last.gsasl_session # NULL =>
                \E j \in 1..(i - 1) :
                    calls[j] = <<"gsasl_finish", last.gsasl_session>>
          /\ last.session_data # NULL =>
                \E j \in 1..(i - 1) :
                    calls[j] = <<"dictionary_unref", last.session_data>>

\* A request_initial replaced an active session by a new one.
C2_Witness ==
    /\ last.op = "request_initial"
    /\ last.gsasl_session # NULL
    /\ last.session_data # NULL
    /\ \E i \in CallsOf("gsasl_client_start") : calls[i][3] = "GSASL_OK"
    /\ gsasl_session # NULL
    /\ AliveSessions(sessions) = {gsasl_session}

\* C3: when the step returns GSASL_OK, the operation emits exactly one signal,
\* response-final with the step's output under ResponseBase64, and afterwards
\* the plugin has no session and no session data, and the session is finished.
C3_StepOk ==
    \A i \in CallsOf("gsasl_step64") :
        StepResult(i) = "GSASL_OK" =>
            /\ OneResponse("response-final", StepOutput64(i))
            /\ gsasl_session = NULL
            /\ session_data = NULL
            /\ StepSession(i) \notin AliveSessions(sessions)

\* A request got the final response of a multi-round mechanism.
C3_Witness ==
    /\ last.op = "request"
    /\ \E i \in CallsOf("gsasl_step64") : StepResult(i) = "GSASL_OK"
    /\ Len(signals) = 1
    /\ signals[1].sig = "response-final"

\* C4: when the step returns GSASL_NEEDS_MORE, the operation emits exactly one
\* signal, response with the step's output under ResponseBase64, and the
\* session stepped and the session data retained for it stay the plugin's.
C4_StepNeedsMore ==
    \A i \in CallsOf("gsasl_step64") :
        StepResult(i) = "GSASL_NEEDS_MORE" =>
            /\ OneResponse("response", StepOutput64(i))
            /\ gsasl_session = StepSession(i)
            /\ gsasl_session \in AliveSessions(sessions)
            /\ session_data = RetainedAtStep
            /\ session_data # NULL
            /\ heap[session_data].refs > 0
            /\ last.op = "request" =>
                  /\ gsasl_session = last.gsasl_session
                  /\ heap = last.heap

\* A request with another dictionary than the retained one got a response.
C4_Witness ==
    /\ last.op = "request"
    /\ last.d # last.session_data
    /\ \E i \in CallsOf("gsasl_step64") : StepResult(i) = "GSASL_NEEDS_MORE"
    /\ Len(signals) = 1
    /\ signals[1].sig = "response"

----------------------------------------------------------------------------
\* The authorization of session data sd, stated on the data alone.

AllowedEntries(sd) ==
    IF "AllowedRealms" \in DOMAIN sd
    THEN {sd["AllowedRealms"][i] : i \in 1..Len(sd["AllowedRealms"])}
    ELSE {}

RealmRejected(sd) ==
    /\ "Realm" \in DOMAIN sd
    /\ sd["Realm"] \notin AllowedEntries(sd)

HostRejected(sd) ==
    /\ "Hostname" \in DOMAIN sd
    /\ \A e \in AllowedEntries(sd) :
          ~gsignond_is_host_in_domain(sd["Hostname"], e)

\* The last operation was a request_initial whose session data is rejected.
StartRejected ==
    /\ last.op = "request_initial"
    /\ \/ RealmRejected(last.heap[last.d].data)
       \/ HostRejected(last.heap[last.d].data)

\* The last operation changed nothing but the signals.
NothingChanged ==
    /\ calls = <<>>
    /\ gsasl_session = last.gsasl_session
    /\ session_data = last.session_data
    /\ sessions = last.sessions
    /\ heap = last.heap

\* C6, as stated: a request_initial whose Realm equals no allowed realm, or
\* whose Hostname is in no allowed domain, emits exactly one error,
\* GSIGNOND_ERROR_NOT_AUTHORIZED, and calls no library function.
C6_Original ==
    StartRejected =>
        /\ OneError("GSIGNOND_ERROR_NOT_AUTHORIZED")
        /\ NothingChanged

\* C6, amended: on a plugin whose gsasl library initialized, a request_initial
\* whose Realm equals no allowed realm, or whose Hostname is in no allowed
\* domain, emits exactly one error, GSIGNOND_ERROR_NOT_AUTHORIZED, and calls
\* no library function: no gsasl_client_start, no step, no new session, and
\* the session the plugin had stays.
C6_Unauthorized ==
    (StartRejected /\ gsasl_context # NULL) =>
        /\ OneError("GSIGNOND_ERROR_NOT_AUTHORIZED")
        /\ NothingChanged

\* A request_initial with a hostname outside the allowed domains was rejected
\* while a session was active.
C6_Witness ==
    /\ last.op = "request_initial"
    /\ HostRejected(last.heap[last.d].data)
    /\ ~RealmRejected(last.heap[last.d].data)
    /\ last.gsasl_session # NULL
    /\ OneError("GSIGNOND_ERROR_NOT_AUTHORIZED")

\* After a request_initial the library did not start a session for.
StartFailed ==
    /\ OneError("GSIGNOND_ERROR_OPERATION_NOT_SUPPORTED")
    /\ CallsOf("gsasl_step64") = {}
    /\ gsasl_session = NULL
    /\ session_data = NULL
    /\ AliveSessions(sessions) = {}

\* C7: a request_initial with authorized session data for which
\* gsasl_client_start does not return GSASL_OK (a mechanism the library does
\* not know, or another failure) emits exactly one error,
\* GSIGNOND_ERROR_OPERATION_NOT_SUPPORTED, performs no step, and leaves the
\* plugin without session and session data and the library without a live
\* session; a request that follows is refused with GSIGNOND_ERROR_WRONG_STATE.
C7_StartFailed ==
    /\ ( /\ last.op = "request_initial"
         /\ ~RealmRejected(last.heap[last.d].data)
         /\ ~HostRejected(last.heap[last.d].data)
         /\ last.mechanism \notin SupportedMechanisms ) => StartFailed
    /\ \A i \in CallsOf("gsasl_client_start") :
          calls[i][3] # "GSASL_OK" => StartFailed
    /\ (last.op = "request" /\ last.prev = "start-failed") =>
          /\ OneError("GSIGNOND_ERROR_WRONG_STATE")
          /\ calls = <<>>

\* A request_initial for an unknown mechanism failed and discarded the
\* session that was active.
C7_Witness ==
    /\ last.op = "request_initial"
    /\ last.mechanism \notin SupportedMechanisms
    /\ last.gsasl_session # NULL
    /\ last.session_data # NULL
    /\ \E i \in CallsOf("gsasl_client_start") : calls[i][3] # "GSASL_OK"
    /\ OneError("GSIGNOND_ERROR_OPERATION_NOT_SUPPORTED")

\* C8: cancel emits exactly one signal, the error
\* GSIGNOND_ERROR_SESSION_CANCELED, in whatever state it is called.
C8_CancelSignal ==
    last.op = "cancel" => OneError("GSIGNOND_ERROR_SESSION_CANCELED")

\* cancel was called on a plugin without a session.
C8_Witness ==
    /\ last.op = "cancel"
    /\ last.gsasl_session = NULL
    /\ OneError("GSIGNOND_ERROR_SESSION_CANCELED")

Emitted(sig) == Len(signals) = 1 /\ signals[1].sig = sig

----------------------------------------------------------------------------
\* The outcomes of an operation that emitted an error.
ErrorOutcomes ==
    {"unauthorized", "step-failed", "no-library", "start-failed", "canceled",
     "wrong-state"}

DiscardCalls ==
    (IF last.session_data # NULL
     THEN << <<"dictionary_unref", last.session_data>> >> ELSE << >>)
    \o (IF last.gsasl_session # NULL
        THEN << <<"gsasl_finish", last.gsasl_session>> >> ELSE << >>)

\* C12, as stated: every request_initial, whatever its outcome, finishes the
\* session the plugin had and drops the session data it retained.
C12_Original ==
    last.op = "request_initial" =>
        /\ Len(calls) >= Len(DiscardCalls)
        /\ SubSeq(calls, 1, Len(DiscardCalls)) = DiscardCalls

\* C12, amended: a request_initial on an initialized library whose session
\* data passes the authorization check discards the prior state first: it
\* drops the retained session data and finishes the session before it calls
\* gsasl_client_start.  A request_initial that is rejected (library not
\* initialized, realm or hostname not allowed) returns before that: the
\* session and the retained session data of before the call stay.
C12_DiscardsAfterChecks ==
    /\ ( /\ last.op = "request_initial"
         /\ gsasl_context # NULL
         /\ ~RealmRejected(last.heap[last.d].data)
         /\ ~HostRejected(last.heap[last.d].data) ) =>
          /\ Len(calls) > Len(DiscardCalls)
          /\ SubSeq(calls, 1, Len(DiscardCalls)) = DiscardCalls
          /\ calls[Len(DiscardCalls) + 1][1] = "gsasl_client_start"
    /\ (StartRejected \/ (last.op = "request_initial" /\ gsasl_context = NULL)) =>
          /\ Emitted("error")
          /\ calls = <<>>
          /\ gsasl_session = last.gsasl_session
          /\ session_data = last.session_data
          /\ AliveSessions(sessions) = AliveSessions(last.sessions)
          /\ heap = last.heap

\* A request_initial with a realm that is not allowed left the active session
\* and its session data with the plugin.
C12_Witness ==
    /\ last.op = "request_initial"
    /\ RealmRejected(last.heap[last.d].data)
    /\ last.gsasl_session # NULL
    /\ gsasl_session = last.gsasl_session
    /\ gsasl_session \in AliveSessions(sessions)
    /\ session_data # NULL
    /\ heap[session_data].refs > 0

----------------------------------------------------------------------------
\* C13: no session of the library leaks and none is finished twice.  In every
\* state a live session is the plugin's gsasl_session, so that each session
\* gsasl_client_start created is finished by the final step, by the
\* reset_session of a later request_initial, or by finalize; after finalize
\* no session is alive.  Discarding the session emits no signal: finalize
\* emits none, and a request_initial emits exactly one signal also when it
\* discarded a session first.
C13_NoSessionLeak ==
    /\ \A i \in SessionIds : sessions[i].status # "corrupt"
    /\ AliveSessions(sessions) \subseteq {gsasl_session}
    /\ \A i \in CallsOf("gsasl_finish") :
          /\ calls[i][2] \notin AliveSessions(sessions) \/ calls[i][2] = gsasl_session
          /\ \A j \in CallsOf("gsasl_finish") : j # i =>
                \E k \in CallsOf("gsasl_client_start") :
                    /\ (i < k /\ k < j) \/ (j < k /\ k < i)
                    /\ calls[k][3] = "GSASL_OK"
    /\ finalized =>
          /\ AliveSessions(sessions) = {}
          /\ gsasl_session = NULL
          /\ signals = <<>>
    /\ last.op = "request_initial" => Len(signals) = 1

\* finalize finished the session that was active.
C13_Witness ==
    /\ finalized
    /\ last.op = "finalize"
    /\ last.gsasl_session # NULL
    /\ calls = DiscardCalls
    /\ AliveSessions(sessions) = {}

----------------------------------------------------------------------------
\* The state the last operation began in.
PreState ==
    [gsasl_context |-> gsasl_context, gsasl_session |-> last.gsasl_session,
     session_data |-> last.session_data, sessions |-> last.sessions,
     heap |-> last.heap, signals |-> <<>>, calls |-> <<>>]

\* The ChallengeBase64 entry of session data, alone.
ChallengeOf(data) ==
    [k \in DOMAIN data \cap {"ChallengeBase64"} |-> data[k]]

\* Session data that agree with data on ChallengeBase64 and differ in the
\* other keys.
Variants(data) ==
    { ChallengeOf(data),
      ChallengeOf(data) @@ ("AnonymousToken" :> "other"),
      ChallengeOf(data) @@ ("UserName" :> "otheruser") @@ ("Secret" :> "otherpassword"),
      ChallengeOf(data) @@ ("Secret" :> "otherpassword") @@ Digest,
      ChallengeOf(data) @@ ("ScramSaltedPassword" :> "salted") @@ Creds,
      ChallengeOf(data) @@ ("Realm" :> <<"com">>) @@ Digest }

\* C14: a request whose dictionary is not the one the plugin retained does
\* the same whatever that dictionary holds besides ChallengeBase64: run from
\* the same state with any other such content, it emits the same signals,
\* makes the same library calls with the same results, and ends with the same
\* plugin fields, sessions and dictionaries.
C14_RequestReadsRetained ==
    (last.op = "request" /\ last.d # last.session_data) =>
        \A c \in Variants(last.heap[last.d].data) :
            LET r == gsignond_sasl_plugin_request(
                         [PreState EXCEPT !.heap[last.d].data = c], last.d)
            IN  /\ r.signals = signals
                /\ r.calls = calls
                /\ r.gsasl_session = gsasl_session
                /\ r.session_data = session_data
                /\ r.sessions = sessions
                /\ r.heap[last.d] = [heap[last.d] EXCEPT !.data = c]
                /\ \A e \in DictIds \ {last.d} : r.heap[e] = heap[e]

\* A request whose dictionary holds a user name failed for want of one: the
\* step asked the retained dictionary, which holds none.
C14_Witness ==
    /\ last.op = "request"
    /\ last.session_data # NULL
    /\ last.d # last.session_data
    /\ "UserName" \in DOMAIN last.heap[last.d].data
    /\ "UserName" \notin DOMAIN last.heap[last.session_data].data
    /\ \E i \in CallsOf("gsasl_step64") : StepResult(i) = "GSASL_NO_AUTHID"

----------------------------------------------------------------------------
\* C15: no operation of the plugin changes the content of a dictionary: after
\* every operation, each dictionary that still exists holds the keys and
\* values it held when the operation began, the retained one and the one
\* passed to the operation included.
C15_ParamsReadOnly ==
    last.op # "none" =>
        \A d \in DictIds :
            /\ heap[d].refs > 0 => heap[d].data = last.heap[d].data
            /\ heap[d].refs = 0 => last.heap[d].refs <= 1

\* A request stepped a session with properties of the retained dictionary and
\* a challenge of another one; both dictionaries are as they were.
C15_Witness ==
    /\ last.op = "request"
    /\ session_data # NULL
    /\ last.d # session_data
    /\ \E i \in CallsOf("gsasl_step64") :
          /\ StepResult(i) = "GSASL_NEEDS_MORE"
          /\ StepOutput64(i) # <<>>
    /\ heap[last.d].data = last.heap[last.d].data
    /\ heap[session_data].data = last.heap[session_data].data
    /\ heap[last.d].data # heap[session_data].data

----------------------------------------------------------------------------
\* The property callback on its own: gsasl_callback applied to a property, for
\* a plugin without session data or with a session and session data of any
\* of ResolveContents.

\* Properties of the library the callback has no case for.
OtherKinds ==
    {"GSASL_VALIDATE_SIMPLE", "GSASL_VALIDATE_ANONYMOUS",
     "GSASL_SAML20_IDP_IDENTIFIER", "GSASL_OPENID20_REDIRECT_URL"}

\* The keys the callback reads, and two it does not.
ResolveKeys ==
    {"UserName", "Authzid", "Secret", "AnonymousToken", "Service", "Hostname",
     "GssapiDisplayName", "Passcode", "SuggestedPin", "Pin", "Realm",
     "DigestMd5HashedPassword", "Qops", "Qop", "ScramIter", "ScramSalt",
     "ScramSaltedPassword", "CbTlsUnique", "ChallengeBase64", "AllowedRealms"}

\* Session data: no key, one key, every key but one, every key.
ResolveContents ==
    {[k \in S |-> <<"value of", k>>] :
        S \in {{}} \cup {{k} : k \in ResolveKeys}
               \cup {ResolveKeys \ {k} : k \in ResolveKeys}
               \cup {ResolveKeys}}

InitResolve ==
    /\ gsasl_context = 1
    /\ \/ /\ gsasl_session = NULL
          /\ session_data = NULL
          /\ sessions = [i \in SessionIds |-> FreeSession]
          /\ heap = [d \in DictIds |-> [refs |-> 0, data |-> EmptyDict]]
       \/ \E content \in ResolveContents, mech \in SupportedMechanisms :
             /\ gsasl_session = 1
             /\ session_data = 1
             /\ sessions = [i \in SessionIds |->
                               IF i = 1 THEN NewSession(mech) ELSE FreeSession]
             /\ heap = [d \in DictIds |->
                           IF d = 1 THEN [refs |-> 1, data |-> content]
                           ELSE [refs |-> 0, data |-> EmptyDict]]
    /\ held = {}
    /\ signals = <<>>
    /\ calls = <<>>
    /\ last = NoOp
    /\ finalized = FALSE

\* The library asks the callback for a property.
Resolve ==
    /\ \E kind \in PropertyKinds \cup OtherKinds :
          LET r == gsasl_callback(heap, session_data, kind) IN
          calls' = << <<"gsasl_callback", kind, r.res, r.set>> >>
    /\ last' = [NoOp EXCEPT !.op = "resolve"]
    /\ UNCHANGED <<gsasl_context, gsasl_session, session_data, sessions, heap,
                   held, signals, finalized>>

NextResolve == Resolve

SpecResolve == InitResolve /\ [][NextResolve]_vars

\* The key each property is read from, as pairs.
KindKeys ==
    { <<"GSASL_AUTHID", "UserName">>, <<"GSASL_AUTHZID", "Authzid">>,
      <<"GSASL_PASSWORD", "Secret">>,
      <<"GSASL_ANONYMOUS_TOKEN", "AnonymousToken">>,
      <<"GSASL_SERVICE", "Service">>, <<"GSASL_HOSTNAME", "Hostname">>,
      <<"GSASL_GSSAPI_DISPLAY_NAME", "GssapiDisplayName">>,
      <<"GSASL_PASSCODE", "Passcode">>,
      <<"GSASL_SUGGESTED_PIN", "SuggestedPin">>, <<"GSASL_PIN", "Pin">>,
      <<"GSASL_REALM", "Realm">>,
      <<"GSASL_DIGEST_MD5_HASHED_PASSWORD", "DigestMd5HashedPassword">>,
      <<"GSASL_QOPS", "Qops">>, <<"GSASL_QOP", "Qop">>,
      <<"GSASL_SCRAM_ITER", "ScramIter">>, <<"GSASL_SCRAM_SALT", "ScramSalt">>,
      <<"GSASL_SCRAM_SALTED_PASSWORD", "ScramSaltedPassword">>,
      <<"GSASL_CB_TLS_UNIQUE", "CbTlsUnique">> }

\* The session data the plugin retains, empty when it retains none.
RetainedData == IF session_data = NULL THEN EmptyDict ELSE heap[session_data].data

\* C16: the callback supplies a property exactly when the plugin retains
\* session data, the property is one of the 18 of the table, and the one key
\* the table gives for it is in the session data; the value supplied is the
\* value of that key.  Otherwise (no session data, key missing, property not
\* in the table) it returns GSASL_NO_CALLBACK and supplies nothing.  The 18
\* properties are read from 18 different keys.
C16_Resolve ==
    /\ last.op = "resolve" =>
          LET kind == calls[1][2]
              res == calls[1][3]
              set == calls[1][4]
              keys == {p[2] : p \in {q \in KindKeys : q[1] = kind}}
          IN  /\ (res = "GSASL_OK") <=>
                    /\ session_data # NULL
                    /\ keys \cap DOMAIN RetainedData # {}
              /\ res = "GSASL_OK" =>
                    \A k \in keys : set = Some(RetainedData[k])
              /\ res # "GSASL_OK" => (res = "GSASL_NO_CALLBACK" /\ set = None)
              /\ Cardinality(keys) <= 1
              /\ kind \in OtherKinds => keys = {}
    /\ Cardinality(PropertyKinds) = 18
    /\ {p[1] : p \in KindKeys} = PropertyKinds
    /\ \A k1, k2 \in PropertyKinds :
          k1 # k2 => PropertyKey(k1) # PropertyKey(k2)
    /\ \A k \in DOMAIN RetainedData :
          Cardinality({kind \in PropertyKinds \cup OtherKinds :
              /\ gsasl_callback(heap, session_data, kind).res = "GSASL_OK"
              /\ gsasl_callback(heap, session_data, kind).set
                     = Some(RetainedData[k])}) <= 1

\* The callback supplied GSASL_QOPS from session data that hold every key.
C16_Witness ==
    /\ last.op = "resolve"
    /\ calls[1][2] = "GSASL_QOPS"
    /\ calls[1][3] = "GSASL_OK"
    /\ calls[1][4] = Some(<<"value of", "Qops">>)
    /\ DOMAIN RetainedData = ResolveKeys

----------------------------------------------------------------------------
\* C17: user_action_finished and refresh, in every state and with every
\* dictionary, emit exactly one signal, the error GSIGNOND_ERROR_WRONG_STATE,
\* call no library function and leave the plugin's session and session data,
\* the library's sessions and the dictionaries as they were.
C17_UnsupportedOperations ==
    last.op \in {"user_action_finished", "refresh"} =>
        /\ OneError("GSIGNOND_ERROR_WRONG_STATE")
        /\ NothingChanged

\* refresh was called during an active session, with a dictionary holding a
\* good challenge.
C17_Witness ==
    /\ last.op = "refresh"
    /\ last.gsasl_session # NULL
    /\ dictionary_get_string(heap[last.d].data, "ChallengeBase64") = Some("good")
    /\ gsasl_session \in AliveSessions(sessions)
    /\ OneError("GSIGNOND_ERROR_WRONG_STATE")

\* The mechanisms property lists the mechanisms whatever gsasl_init returned.
PROP_MECHANISMS_unconditional(ctx) == SupportedMechanisms

----------------------------------------------------------------------------
\* The mechanisms property of the plugin whose gsasl_context is ctx.
PROP_MECHANISMS(ctx) == IF ctx # NULL THEN SupportedMechanisms ELSE {}

\* Session data that hold what the one step of mech needs.
SingleStepComplete(mech, data) ==
    \/ mech = "ANONYMOUS" /\ "AnonymousToken" \in DOMAIN data
    \/ mech = "PLAIN" /\ {"UserName", "Secret"} \subseteq DOMAIN data
    \/ /\ mech = "CRAM-MD5"
       /\ {"UserName", "Secret"} \subseteq DOMAIN data
       /\ dictionary_get_string(data, "ChallengeBase64") = Some("good")

\* The last operation was a request_initial for a mechanism the plugin
\* offers, with session data that pass the authorization check, and the
\* library started a session for it.
Started ==
    /\ last.op = "request_initial"
    /\ last.mechanism \in PROP_MECHANISMS(gsasl_context)
    /\ ~StartRejected
    /\ \A i \in CallsOf("gsasl_client_start") : calls[i][3] = "GSASL_OK"

\* C18: a request_initial for ANONYMOUS with an anonymous token, for PLAIN
\* with user name and secret, or for CRAM-MD5 with user name, secret and a
\* good initial challenge (a mechanism the plugin offers, authorized session
\* data, a session started) emits exactly one signal, response-final, and
\* leaves the plugin without session and session data and the library without
\* a live session.
C18_SingleStep ==
    (Started /\ SingleStepComplete(last.mechanism, last.heap[last.d].data)) =>
        /\ Emitted("response-final")
        /\ signals[1].data # EmptyDict
        /\ \E i \in CallsOf("gsasl_step64") :
              /\ StepResult(i) = "GSASL_OK"
              /\ \A j \in CallsOf("gsasl_step64") : j = i
        /\ gsasl_session = NULL
        /\ session_data = NULL
        /\ AliveSessions(sessions) = {}

\* A request_initial for CRAM-MD5 with credentials and a good challenge got
\* the final response.
C18_Witness ==
    /\ Started
    /\ last.mechanism = "CRAM-MD5"
    /\ SingleStepComplete(last.mechanism, last.heap[last.d].data)
    /\ Emitted("response-final")
    /\ gsasl_session = NULL

----------------------------------------------------------------------------
\* Session data that lack a property the first step of mech requires, the
\* challenge that step consumes being good.
FirstStepLacks(mech, data) ==
    \/ mech = "ANONYMOUS" /\ "AnonymousToken" \notin DOMAIN data
    \/ mech = "PLAIN" /\ ~({"UserName", "Secret"} \subseteq DOMAIN data)
    \/ /\ mech = "CRAM-MD5"
       /\ dictionary_get_string(data, "ChallengeBase64") = Some("good")
       /\ ~({"UserName", "Secret"} \subseteq DOMAIN data)
    \/ /\ mech = "DIGEST-MD5"
       /\ dictionary_get_string(data, "ChallengeBase64") = Some("good")
       /\ ~({"UserName", "Secret", "Service", "Hostname"} \subseteq DOMAIN data)
    \/ mech = "SCRAM-SHA-1" /\ "UserName" \notin DOMAIN data

\* C19: a request_initial whose first step requires a property that the
\* session data do not hold (ANONYMOUS without AnonymousToken, PLAIN without
\* UserName or Secret, ...) emits exactly one signal, the error
\* GSIGNOND_ERROR_NOT_AUTHORIZED, and neither response nor response-final:
\* the one step it performs fails.
C19_MissingProperty ==
    (Started /\ FirstStepLacks(last.mechanism, last.heap[last.d].data)) =>
        /\ OneError("GSIGNOND_ERROR_NOT_AUTHORIZED")
        /\ Cardinality(CallsOf("gsasl_step64")) = 1
        /\ \A i \in CallsOf("gsasl_step64") :
              StepResult(i) \notin {"GSASL_OK", "GSASL_NEEDS_MORE"}

\* A request_initial for ANONYMOUS with session data without AnonymousToken
\* failed in its step.
C19_Witness ==
    /\ Started
    /\ last.mechanism = "ANONYMOUS"
    /\ "AnonymousToken" \notin DOMAIN last.heap[last.d].data
    /\ OneError("GSIGNOND_ERROR_NOT_AUTHORIZED")
    /\ \E i \in CallsOf("gsasl_step64") :
          StepResult(i) = "GSASL_NO_ANONYMOUS_TOKEN"

----------------------------------------------------------------------------
\* Session data that hold what the steps of DIGEST-MD5 or SCRAM-SHA-1 need.
MultiRoundComplete(mech, data) ==
    \/ /\ mech = "DIGEST-MD5"
       /\ {"UserName", "Secret", "Service", "Hostname"} \subseteq DOMAIN data
       /\ dictionary_get_string(data, "ChallengeBase64") = Some("good")
    \/ /\ mech = "SCRAM-SHA-1"
       /\ "UserName" \in DOMAIN data
       /\ {"Secret", "ScramSaltedPassword"} \cap DOMAIN data # {}

\* The last operation was a request with a good challenge, for a session of
\* mech that had completed n steps and whose retained session data are
\* complete.
RequestInRound(mech, n) ==
    /\ last.op = "request"
    /\ last.gsasl_session # NULL
    /\ last.sessions[last.gsasl_session].mech = mech
    /\ last.sessions[last.gsasl_session].step = n
    /\ last.session_data # NULL
    /\ MultiRoundComplete(mech, ("ChallengeBase64" :> "good")
                                    @@ last.heap[last.session_data].data)
    /\ dictionary_get_string(last.heap[last.d].data, "ChallengeBase64")
           = Some("good")

\* The last operation emitted one response and left the session, now with n
\* steps completed, with the plugin.
RespondedInRound(n) ==
    /\ Emitted("response")
    /\ gsasl_session # NULL
    /\ AliveSessions(sessions) = {gsasl_session}
    /\ sessions[gsasl_session].step = n

\* The last operation emitted one response-final with an empty response
\* string and left no session.
Concluded ==
    /\ OneResponse("response-final", <<>>)
    /\ gsasl_session = NULL
    /\ AliveSessions(sessions) = {}

\* C20: with complete session data and good challenges, DIGEST-MD5 takes
\* request_initial -> response, request -> response-final, and SCRAM-SHA-1
\* takes request_initial -> response, request -> response, request ->
\* response-final.  Each of these operations emits exactly one signal, none
\* an error, and the response-final ends the session.
C20_MultiRound ==
    /\ ( /\ Started
         /\ last.mechanism \in {"DIGEST-MD5", "SCRAM-SHA-1"}
         /\ MultiRoundComplete(last.mechanism, last.heap[last.d].data) ) =>
          /\ RespondedInRound(1)
          /\ sessions[gsasl_session].mech = last.mechanism
    /\ RequestInRound("DIGEST-MD5", 1) => Concluded
    /\ RequestInRound("SCRAM-SHA-1", 1) =>
          /\ RespondedInRound(2)
          /\ gsasl_session = last.gsasl_session
    /\ RequestInRound("SCRAM-SHA-1", 2) => Concluded

\* The second request of a SCRAM-SHA-1 session, after a response, got the
\* final response.
C20_Witness ==
    /\ RequestInRound("SCRAM-SHA-1", 2)
    /\ last.prev = "response"
    /\ Concluded

----------------------------------------------------------------------------
\* The plugin with a caller that keeps track of the exchange: last.phase says
\* whether a response-final was emitted and what request_initial did since.
\*   "open"       no response-final yet, or a request_initial got a response
\*                since the last one;
\*   "concluded"  a response-final was emitted and since then the library
\*                started no session;
\*   "restarted"  a response-final was emitted and since then the library
\*                started a session, but no request_initial got a response.
\* last.was is the phase the last operation began in.

TrackedPool ==
    { ("AnonymousToken" :> User),
      Digest @@ ("ChallengeBase64" :> "bad"),
      Digest @@ ("ChallengeBase64" :> "good") }

NextPhase(phase, op, st) ==
    IF \E i \in 1..Len(st.signals) : st.signals[i].sig = "response-final"
    THEN "concluded"
    ELSE IF /\ op = "request_initial"
            /\ \E i \in 1..Len(st.calls) :
                  /\ st.calls[i][1] = "gsasl_client_start"
                  /\ st.calls[i][3] = "GSASL_OK"
    THEN IF \E i \in 1..Len(st.signals) : st.signals[i].sig = "response"
         THEN "open"
         ELSE IF phase = "open" THEN "open" ELSE "restarted"
    ELSE phase

NoOpTracked == [op |-> "none", d |-> NULL, mechanism |-> "",
                gsasl_session |-> NULL, session_data |-> NULL,
                sessions |-> <<>>, heap |-> <<>>, prev |-> "none",
                phase |-> "open", was |-> "open"]

EndTracked(st, op, d, mechanism) ==
    /\ gsasl_context' = st.gsasl_context
    /\ gsasl_session' = st.gsasl_session
    /\ session_data' = st.session_data
    /\ sessions' = st.sessions
    /\ heap' = st.heap
    /\ signals' = st.signals
    /\ calls' = st.calls
    /\ last' = [op |-> op, d |-> d, mechanism |-> mechanism,
                gsasl_session |-> gsasl_session,
                session_data |-> session_data,
                sessions |-> sessions,
                heap |-> heap,
                prev |-> IF op = "request"
                         THEN Outcome(last.op, signals, calls) ELSE "none",
                phase |-> NextPhase(last.phase, op, st),
                was |-> last.phase]

InitTracked ==
    /\ \E ok \in BOOLEAN :
          LET self == gsignond_sasl_plugin_init(ok) IN
          /\ gsasl_context = self.gsasl_context
          /\ gsasl_session = self.gsasl_session
          /\ session_data = self.session_data
    /\ sessions = [i \in SessionIds |-> FreeSession]
    /\ heap = [d \in DictIds |-> [refs |-> 0, data |-> EmptyDict]]
    /\ held = {}
    /\ signals = <<>>
    /\ calls = <<>>
    /\ last = NoOpTracked
    /\ finalized = FALSE

RequestInitialTracked ==
    /\ \E d \in held, mechanism \in MechanismNames :
          EndTracked(gsignond_sasl_plugin_request_initial(Begin, d, mechanism, FALSE),
                     "request_initial", d, mechanism)
    /\ UNCHANGED <<held, finalized>>

RequestTracked ==
    /\ \E d \in held :
          EndTracked(gsignond_sasl_plugin_request(Begin, d), "request", d, "")
    /\ UNCHANGED <<held, finalized>>

CancelTracked ==
    /\ EndTracked(gsignond_sasl_plugin_cancel(Begin), "cancel", NULL, "")
    /\ UNCHANGED <<held, finalized>>

\* The caller creates a dictionary; the exchange is as it was.
CallerNewTracked ==
    /\ \E d \in DictIds, content \in TrackedPool :
          /\ heap[d].refs = 0
          /\ \A e \in DictIds : e < d => heap[e].refs > 0
          /\ heap' = [heap EXCEPT ![d] = [refs |-> 1, data |-> content]]
          /\ held' = held \cup {d}
    /\ signals' = <<>>
    /\ calls' = <<>>
    /\ last' = [NoOpTracked EXCEPT !.phase = last.phase, !.was = last.phase]
    /\ UNCHANGED <<gsasl_context, gsasl_session, session_data, sessions, finalized>>

NextTracked ==
    \/ RequestInitialTracked
    \/ RequestTracked
    \/ CancelTracked
    \/ CallerNewTracked

SpecTracked == InitTracked /\ [][NextTracked]_vars

----------------------------------------------------------------------------
\* The plugin with a caller that answers every response with a request.  The
\* caller works with one dictionary, as the tests do: it passes it to
\* request_initial and, while a response is unanswered, only puts the
\* server's challenge into it and passes it to request.

\* The last operation emitted a response that is not answered yet.
Awaiting == Emitted("response") /\ gsasl_session # NULL

StartLive == ~Awaiting /\ RequestInitialTracked

CallerNewLive == held = {} /\ CallerNewTracked

\* The caller sets ChallengeBase64 in a dictionary it holds.
CallerSetChallenge ==
    /\ Awaiting
    /\ \E d \in held, c \in {"good", "bad"} :
          /\ dictionary_get_string(heap[d].data, "ChallengeBase64") # Some(c)
          /\ heap' = [heap EXCEPT ![d].data = ("ChallengeBase64" :> c) @@ @]
    /\ UNCHANGED <<gsasl_context, gsasl_session, session_data, sessions, held,
                   signals, calls, last, finalized>>

\* The caller answers the response: request with a dictionary that holds a
\* challenge.
Answer ==
    /\ Awaiting
    /\ \E d \in held :
          /\ ~IsNull(dictionary_get_string(heap[d].data, "ChallengeBase64"))
          /\ EndTracked(gsignond_sasl_plugin_request(Begin, d), "request", d, "")
    /\ UNCHANGED <<held, finalized>>

NextLive ==
    \/ StartLive
    \/ CallerNewLive
    \/ CallerSetChallenge
    \/ Answer

SpecLive ==
    /\ InitTracked
    /\ [][NextLive]_vars
    /\ WF_vars(CallerSetChallenge)
    /\ WF_vars(Answer)

\* C22: with a caller that answers every response with a request carrying a
\* challenge, every exchange concludes: a response is always followed, after
\* finitely many requests, by a response-final or an error.
C22_Concludes ==
    Awaiting ~> (Emitted("response-final") \/ Emitted("error"))

\* The answer to the second response of an exchange got the final response.
C22_Witness ==
    /\ last.op = "request"
    /\ last.prev = "response"
    /\ last.sessions[last.gsasl_session].step = 2
    /\ Emitted("response-final")

----------------------------------------------------------------------------
\* The type property always reads "sasl".
PROP_TYPE_always_sasl(ctx) == "sasl"

\* get_property, case PROP_TYPE: "sasl" when the library initialized, the
\* empty string otherwise.
PROP_TYPE(ctx) == IF ctx # NULL THEN "sasl" ELSE ""

----------------------------------------------------------------------------
\* C24: on a plugin whose gsasl library failed to initialize the mechanisms
\* property is empty, and every request_initial, whatever its mechanism and
\* session data (also data whose Realm or Hostname is not allowed), emits
\* exactly one error, GSIGNOND_ERROR_OPERATION_NOT_SUPPORTED, calls no library
\* function and leaves the plugin, the sessions and the dictionaries as they
\* were.
C24_LibraryUnavailable ==
    (gsasl_context = NULL /\ ~finalized) =>
        /\ PROP_MECHANISMS(gsasl_context) = {}
        /\ last.op = "request_initial" =>
              /\ OneError("GSIGNOND_ERROR_OPERATION_NOT_SUPPORTED")
              /\ NothingChanged
              /\ gsasl_session = NULL

\* A request_initial with a realm that is not allowed was made on a plugin
\* whose library failed to initialize.
C24_Witness ==
    /\ gsasl_context = NULL
    /\ StartRejected
    /\ RealmRejected(last.heap[last.d].data)
    /\ OneError("GSIGNOND_ERROR_OPERATION_NOT_SUPPORTED")

----------------------------------------------------------------------------
\* The references on dictionary d: the caller's and the plugin's.
ReferencesOn(d) ==
    (IF d \in held THEN 1 ELSE 0) + (IF session_data = d THEN 1 ELSE 0)

\* C25: the plugin holds exactly one reference on the session data it
\* retains while it has a session and none otherwise.  The plugin retains
\* session data exactly while it has a session; every dictionary has one
\* reference per holder, so that the retained dictionary is alive with its
\* contents also when the caller has dropped its reference.  An operation
\* takes the reference at most once, after a successful gsasl_client_start
\* and on the dictionary passed to it; it releases the retained dictionary
\* exactly when it finishes the session, and never twice without taking a
\* reference in between; after finalize nothing is retained.
C25_OneReference ==
    /\ session_data # NULL <=> gsasl_session # NULL
    /\ \A d \in DictIds : heap[d].refs = ReferencesOn(d)
    /\ session_data # NULL =>
          /\ heap[session_data].refs >= 1
          /\ heap[session_data].data \in ParamsPool \cup TrackedPool
    /\ Cardinality(CallsOf("dictionary_ref")) <= 1
    /\ \A i \in CallsOf("dictionary_ref") :
          /\ last.op = "request_initial"
          /\ calls[i][2] = last.d
          /\ i > 1
          /\ calls[i - 1] = <<"gsasl_client_start", last.mechanism, "GSASL_OK">>
    /\ \A i \in CallsOf("dictionary_unref") :
          /\ i + 1 \in CallsOf("gsasl_finish")
          /\ calls[i][2] = IF \E k \in CallsOf("dictionary_ref") : k < i
                           THEN last.d ELSE last.session_data
          /\ \A j \in CallsOf("dictionary_unref") : i < j =>
                \E k \in CallsOf("dictionary_ref") : i < k /\ k < j
    /\ \A i \in CallsOf("gsasl_finish") : i - 1 \in CallsOf("dictionary_unref")
    /\ finalized => session_data = NULL

\* A request got a response from a session whose retained session data the
\* caller no longer holds: the plugin's reference is the only one.
C25_Witness ==
    /\ last.op = "request"
    /\ session_data # NULL
    /\ session_data \notin held
    /\ heap[session_data].refs = 1
    /\ Emitted("response")

----------------------------------------------------------------------------
\* The authorization check on its own: the plugin, freshly constructed, and a
\* caller that holds one dictionary with any combination of a realm, a
\* hostname and a list of allowed realms, and passes it to request_initial.

AuthRealms ==
    { EmptyDict, "Realm" :> Domain, "Realm" :> UpperDomain, "Realm" :> <<"com">> }

AuthHosts ==
    { EmptyDict, "Hostname" :> SubHost, "Hostname" :> Domain,
      "Hostname" :> OtherHost }

AuthAllowed ==
    { EmptyDict, "AllowedRealms" :> << >>, "AllowedRealms" :> <<Domain>>,
      "AllowedRealms" :> <<UpperDomain>>, "AllowedRealms" :> <<UpperDomain, Domain>>,
      "AllowedRealms" :> << <<"com">> >> }

AuthPool ==
    { r @@ h @@ a @@ Creds @@ ("ChallengeBase64" :> "good") :
        r \in AuthRealms, h \in AuthHosts, a \in AuthAllowed }

InitAuth ==
    /\ \E ok \in BOOLEAN :
          LET self == gsignond_sasl_plugin_init(ok) IN
          /\ gsasl_context = self.gsasl_context
          /\ gsasl_session = self.gsasl_session
          /\ session_data = self.session_data
    /\ sessions = [i \in SessionIds |-> FreeSession]
    /\ \E content \in AuthPool :
          heap = [d \in DictIds |-> IF d = 1 THEN [refs |-> 1, data |-> content]
                                    ELSE [refs |-> 0, data |-> EmptyDict]]
    /\ held = {1}
    /\ signals = <<>>
    /\ calls = <<>>
    /\ last = NoOp
    /\ finalized = FALSE

NextAuth == RequestInitial

SpecAuth == InitAuth /\ [][NextAuth]_vars

\* The claim's conditions on session data sd: no realm, or an allowed entry
\* that equals it; no hostname, or an allowed entry that it equals or is a
\* subdomain of (the entry preceded by further labels and a dot).
RealmAuthorized(sd) ==
    \/ "Realm" \notin DOMAIN sd
    \/ \E e \in AllowedEntries(sd) : e = sd["Realm"]

HostnameAuthorized(sd) ==
    \/ "Hostname" \notin DOMAIN sd
    \/ \E e \in AllowedEntries(sd) :
          \/ sd["Hostname"] = e
          \/ \E n \in 1..Len(sd["Hostname"]) :
                /\ n < Len(sd["Hostname"])
                /\ SubSeq(sd["Hostname"], n + 1, Len(sd["Hostname"])) = e

\* The last operation passed the authorization check: it went on to
\* gsasl_client_start.
PassedAuthorization == CallsOf("gsasl_client_start") # {}

\* C26: on a plugin whose library initialized, the authorization check of
\* request_initial passes exactly when no Realm is supplied or an allowed
\* realm equals it (case-sensitively), and no Hostname is supplied or it
\* equals or is a subdomain of an allowed realm; a request_initial that does
\* not pass emits NOT_AUTHORIZED.  When neither is supplied the check passes
\* whatever the allowed realms are.
C26_AuthorizationCheck ==
    (last.op = "request_initial" /\ gsasl_context # NULL) =>
        LET sd == last.heap[last.d].data IN
        /\ PassedAuthorization <=> (RealmAuthorized(sd) /\ HostnameAuthorized(sd))
        /\ ~PassedAuthorization => OneError("GSIGNOND_ERROR_NOT_AUTHORIZED")
        /\ ("Realm" \notin DOMAIN sd /\ "Hostname" \notin DOMAIN sd) =>
              PassedAuthorization

\* The check passed with the realm matched by one entry and the hostname, a
\* subdomain, by another.
C26_Witness ==
    /\ last.op = "request_initial"
    /\ gsasl_context # NULL
    /\ AllowedEntries(last.heap[last.d].data) = {UpperDomain, Domain}
    /\ "Realm" \in DOMAIN last.heap[last.d].data
    /\ last.heap[last.d].data["Realm"] = UpperDomain
    /\ "Hostname" \in DOMAIN last.heap[last.d].data
    /\ last.heap[last.d].data["Hostname"] = SubHost
    /\ PassedAuthorization

----------------------------------------------------------------------------
\* The session data of the last request_initial supply a Realm or a Hostname
\* and no allowed realm: no list, or an empty one.
SuppliedWithoutAllowed ==
    /\ last.op = "request_initial"
    /\ \/ "Realm" \in DOMAIN last.heap[last.d].data
       \/ "Hostname" \in DOMAIN last.heap[last.d].data
    /\ AllowedEntries(last.heap[last.d].data) = {}

\* C27, as stated: a request_initial whose session data contain a Realm or a
\* Hostname but no allowed realms, or an empty list of them, emits
\* NOT_AUTHORIZED and starts no session.
C27_Original ==
    SuppliedWithoutAllowed =>
        /\ OneError("GSIGNOND_ERROR_NOT_AUTHORIZED")
        /\ CallsOf("gsasl_client_start") = {}
        /\ gsasl_session = last.gsasl_session

\* C27, amended: on a plugin whose library initialized, a request_initial
\* whose session data contain a Realm or a Hostname but no allowed realms, or
\* an empty list of them, emits NOT_AUTHORIZED and starts no session; on a
\* plugin whose library failed to initialize it emits
\* OPERATION_NOT_SUPPORTED and starts no session either.
C27_AllowedRealmsRequired ==
    SuppliedWithoutAllowed =>
        /\ OneError(IF gsasl_context # NULL
                    THEN "GSIGNOND_ERROR_NOT_AUTHORIZED"
                    ELSE "GSIGNOND_ERROR_OPERATION_NOT_SUPPORTED")
        /\ CallsOf("gsasl_client_start") = {}
        /\ gsasl_session = last.gsasl_session

\* A request_initial with a Realm and without a list of allowed realms was
\* rejected.
C27_Witness ==
    /\ SuppliedWithoutAllowed
    /\ gsasl_context # NULL
    /\ "Realm" \in DOMAIN last.heap[last.d].data
    /\ "Hostname" \notin DOMAIN last.heap[last.d].data
    /\ "AllowedRealms" \notin DOMAIN last.heap[last.d].data
    /\ OneError("GSIGNOND_ERROR_NOT_AUTHORIZED")

----------------------------------------------------------------------------
\* C28, as stated: a request_initial whose Realm and Hostname are both
\* rejected emits exactly one error, "Unauthorized realm"; "Unauthorized
\* hostname" is emitted only when the Realm is absent or allowed.
C28_Original ==
    last.op = "request_initial" =>
        LET sd == last.heap[last.d].data IN
        /\ (RealmRejected(sd) /\ HostRejected(sd)) =>
              /\ OneError("GSIGNOND_ERROR_NOT_AUTHORIZED")
              /\ signals[1].msg = <<"Unauthorized realm">>
        /\ \A i \in 1..Len(signals) :
              signals[i].msg = <<"Unauthorized hostname">> => ~RealmRejected(sd)

\* C28, amended: on a plugin whose library initialized, a request_initial
\* whose Realm and Hostname are both rejected emits exactly one error,
\* "Unauthorized realm"; "Unauthorized hostname" is emitted only when the
\* Hostname is rejected and the Realm is absent or allowed.  On a plugin
\* whose library failed to initialize neither message is emitted.
C28_RealmRejectedFirst ==
    last.op = "request_initial" =>
        LET sd == last.heap[last.d].data IN
        /\ (RealmRejected(sd) /\ HostRejected(sd) /\ gsasl_context # NULL) =>
              /\ OneError("GSIGNOND_ERROR_NOT_AUTHORIZED")
              /\ signals[1].msg = <<"Unauthorized realm">>
        /\ \A i \in 1..Len(signals) :
              /\ signals[i].msg = <<"Unauthorized hostname">> =>
                    /\ HostRejected(sd)
                    /\ ~RealmRejected(sd)
                    /\ signals[i].code = "GSIGNOND_ERROR_NOT_AUTHORIZED"
              /\ gsasl_context = NULL =>
                    signals[i].msg \notin {<<"Unauthorized realm">>,
                                           <<"Unauthorized hostname">>}

\* A request_initial whose Realm and Hostname are both rejected was answered
\* with "Unauthorized realm".
C28_Witness ==
    /\ last.op = "request_initial"
    /\ gsasl_context # NULL
    /\ RealmRejected(last.heap[last.d].data)
    /\ HostRejected(last.heap[last.d].data)
    /\ OneError("GSIGNOND_ERROR_NOT_AUTHORIZED")
    /\ signals[1].msg = <<"Unauthorized realm">>

----------------------------------------------------------------------------
\* The operations of the GSignondPlugin interface.
PublicOperations ==
    {"request_initial", "request", "cancel", "user_action_finished", "refresh"}

\* C29: every call of request_initial, request, cancel, user_action_finished
\* or refresh, in whatever state and with whatever dictionary and mechanism,
\* emits exactly one signal before it returns, and it is response,
\* response-final or error; nothing else emits a signal.
C29_OneSignalPerCall ==
    /\ last.op \in PublicOperations =>
          /\ Len(signals) = 1
          /\ signals[1].sig \in {"response", "response-final", "error"}
    /\ last.op \notin PublicOperations => signals = <<>>

\* A request_initial that discarded an active session and stepped the new one
\* emitted its one signal, a response.
C29_Witness ==
    /\ last.op = "request_initial"
    /\ last.gsasl_session # NULL
    /\ CallsOf("gsasl_finish") # {}
    /\ CallsOf("gsasl_step64") # {}
    /\ signals # <<>>
    /\ signals[1].sig = "response"

----------------------------------------------------------------------------
\* The last operation reached _do_gsasl_iteration: a request_initial after a
\* successful gsasl_client_start, or a request on a plugin with a session.
ReachedStep ==
    \/ /\ last.op = "request_initial"
       /\ \E i \in CallsOf("gsasl_client_start") : calls[i][3] = "GSASL_OK"
    \/ /\ last.op = "request"
       /\ last.gsasl_session # NULL

\* C30: a request_initial that passes the checks and whose gsasl_client_start
\* succeeds, and a request on a plugin with a session, call gsasl_step64
\* exactly once, on the plugin's session and with the ChallengeBase64 of the
\* dictionary passed to that call (NULL when it has none); every other
\* operation calls it not at all.
C30_OneStepSeeded ==
    /\ Cardinality(CallsOf("gsasl_step64")) = (IF ReachedStep THEN 1 ELSE 0)
    /\ \A i \in CallsOf("gsasl_step64") :
          /\ StepChallenge(i) =
                dictionary_get_string(last.heap[last.d].data, "ChallengeBase64")
          /\ last.op = "request" => StepSession(i) = last.gsasl_session
          /\ last.op = "request_initial" =>
                /\ i > 2
                /\ calls[i - 2] = <<"gsasl_client_start", last.mechanism, "GSASL_OK">>

\* A request with a dictionary other than the retained one, and with another
\* challenge, stepped the session with the challenge of the dictionary passed
\* to it.
C30_Witness ==
    /\ last.op = "request"
    /\ last.session_data # NULL
    /\ last.d # last.session_data
    /\ dictionary_get_string(last.heap[last.d].data, "ChallengeBase64")
          # dictionary_get_string(last.heap[last.session_data].data, "ChallengeBase64")
    /\ \E i \in CallsOf("gsasl_step64") :
          StepChallenge(i) =
              dictionary_get_string(last.heap[last.d].data, "ChallengeBase64")

----------------------------------------------------------------------------
\* C33: between operations the plugin retains session data if and only if it
\* has a session: no sequence of request_initial, request, cancel,
\* user_action_finished and refresh (nor finalize) ends with session data
\* and no session, or with a session and no session data; and the session
\* the plugin has is alive in the library.
C33_RetainedIffSession ==
    /\ (session_data = NULL) = (gsasl_session = NULL)
    /\ gsasl_session # NULL => gsasl_session \in AliveSessions(sessions)
    /\ session_data # NULL => session_data \in DictIds

\* The final step of a request cleared both the session and the session data
\* the plugin had.
C33_Witness ==
    /\ last.op = "request"
    /\ last.gsasl_session # NULL
    /\ last.session_data # NULL
    /\ gsasl_session = NULL
    /\ session_data = NULL

----------------------------------------------------------------------------
\* The plugin with a caller that changes its dictionary between the calls.
\* The caller works with one dictionary, as the tests do: it fills it, passes
\* it to request_initial and to request, and in between sets or removes keys
\* of it.  last records in addition the dictionary passed to the
\* request_initial that started the latest session (given) and the contents
\* it had then (at_start).

RetainedPool ==
    { Creds @@ ("ChallengeBase64" :> "good"),
      ("UserName" :> User) @@ ("ChallengeBase64" :> "good"),
      Digest @@ ("ChallengeBase64" :> "good") }

\* The values the caller sets under a key.
CallerValues(key) ==
    CASE key = "Secret" -> {Pass, "otherpassword"}
      [] key = "ChallengeBase64" -> {"good", "bad"}
      [] key = "Service" -> {"megaservice"}

CallerKeys == {"Secret", "ChallengeBase64", "Service"}

NoOpRetained == [op |-> "none", d |-> NULL, mechanism |-> "",
                 gsasl_session |-> NULL, session_data |-> NULL,
                 sessions |-> <<>>, heap |-> <<>>, prev |-> "none",
                 given |-> NULL, at_start |-> EmptyDict]

EndRetained(st, op, d, mechanism) ==
    LET retained == /\ op = "request_initial"
                    /\ \E i \in 1..Len(st.calls) :
                          st.calls[i] = <<"dictionary_ref", d>>
    IN
    /\ gsasl_context' = st.gsasl_context
    /\ gsasl_session' = st.gsasl_session
    /\ session_data' = st.session_data
    /\ sessions' = st.sessions
    /\ heap' = st.heap
    /\ signals' = st.signals
    /\ calls' = st.calls
    /\ last' = [op |-> op, d |-> d, mechanism |-> mechanism,
                gsasl_session |-> gsasl_session,
                session_data |-> session_data,
                sessions |-> sessions,
                heap |-> heap,
                prev |-> IF op = "request"
                         THEN Outcome(last.op, signals, calls) ELSE "none",
                given |-> IF retained THEN d ELSE last.given,
                at_start |-> IF retained THEN heap[d].data ELSE last.at_start]

InitRetained ==
    /\ \E ok \in BOOLEAN :
          LET self == gsignond_sasl_plugin_init(ok) IN
          /\ gsasl_context = self.gsasl_context
          /\ gsasl_session = self.gsasl_session
          /\ session_data = self.session_data
    /\ sessions = [i \in SessionIds |-> FreeSession]
    /\ heap = [d \in DictIds |-> [refs |-> 0, data |-> EmptyDict]]
    /\ held = {}
    /\ signals = <<>>
    /\ calls = <<>>
    /\ last = NoOpRetained
    /\ finalized = FALSE

\* What a step of the caller leaves of the last operation.
CallerStep ==
    /\ signals' = <<>>
    /\ calls' = <<>>
    /\ last' = [NoOpRetained EXCEPT !.given = last.given,
                                    !.at_start = last.at_start]
    /\ UNCHANGED <<gsasl_context, gsasl_session, session_data, sessions, finalized>>

CallerNewRetained ==
    /\ held = {}
    /\ \E content \in RetainedPool :
          heap' = [heap EXCEPT ![1] = [refs |-> 1, data |-> content]]
    /\ held' = {1}
    /\ CallerStep

\* gsignond_dictionary_set_string on a dictionary the caller holds.
CallerSet ==
    /\ \E d \in held, key \in CallerKeys :
          \E value \in CallerValues(key) :
             /\ dictionary_get_string(heap[d].data, key) # Some(value)
             /\ heap' = [heap EXCEPT ![d].data = (key :> value) @@ @]
    /\ CallerStep
    /\ UNCHANGED held

\* gsignond_dictionary_remove on a dictionary the caller holds.
CallerRemove ==
    /\ \E d \in held, key \in CallerKeys :
          /\ key \in DOMAIN heap[d].data
          /\ heap' = [heap EXCEPT ![d].data =
                         [k \in DOMAIN @ \ {key} |-> @[k]]]
    /\ CallerStep
    /\ UNCHANGED held

RequestInitialRetained ==
    /\ \E d \in held, mechanism \in {"CRAM-MD5", "DIGEST-MD5", "SCRAM-SHA-1"} :
          EndRetained(gsignond_sasl_plugin_request_initial(Begin, d, mechanism, FALSE),
                      "request_initial", d, mechanism)
    /\ UNCHANGED <<held, finalized>>

RequestRetained ==
    /\ \E d \in held :
          EndRetained(gsignond_sasl_plugin_request(Begin, d), "request", d, "")
    /\ UNCHANGED <<held, finalized>>

NextRetained ==
    \/ CallerNewRetained
    \/ CallerSet
    \/ CallerRemove
    \/ RequestInitialRetained
    \/ RequestRetained

SpecRetained == InitRetained /\ [][NextRetained]_vars

\* The properties the step of the last request fetched through the callback:
\* those the session has now and had not before.
FetchedNow ==
    IF last.gsasl_session \in AliveSessions(sessions)
    THEN DOMAIN sessions[last.gsasl_session].props
            \ DOMAIN last.sessions[last.gsasl_session].props
    ELSE {}

\* C34: the plugin retains the dictionary passed to request_initial itself,
\* not a copy: every property the step of a later request fetches has the
\* value that dictionary holds when the request is made, whatever the caller
\* has set or removed in it since request_initial, and a step fails for a
\* missing property only if the dictionary does not hold its key then.
C34_LookupSeesCurrent ==
    (last.op = "request" /\ last.gsasl_session # NULL) =>
        /\ last.session_data = last.given
        /\ LET cur == last.heap[last.given].data IN
           /\ \A k \in FetchedNow :
                 /\ PropertyKey(k) \in DOMAIN cur
                 /\ sessions[last.gsasl_session].props[k] = cur[PropertyKey(k)]
           /\ \A i \in CallsOf("gsasl_step64") :
                 \A k \in {"GSASL_AUTHID", "GSASL_PASSWORD", "GSASL_SERVICE",
                           "GSASL_HOSTNAME"} :
                    StepResult(i) = NoPropertyCode(k) =>
                        PropertyKey(k) \notin DOMAIN cur

\* A request fetched a password that the caller changed in the retained
\* dictionary after request_initial.
C34_Witness ==
    /\ last.op = "request"
    /\ last.gsasl_session # NULL
    /\ "GSASL_PASSWORD" \in FetchedNow
    /\ "Secret" \in DOMAIN last.at_start
    /\ last.at_start["Secret"] = Pass
    /\ sessions[last.gsasl_session].props["GSASL_PASSWORD"] = "otherpassword"

----------------------------------------------------------------------------
\* Signal handlers that call back into the plugin.  A signal is emitted
\* synchronously: the handlers connected to it run inside
\* gsignond_plugin_response, gsignond_plugin_response_final and
\* gsignond_plugin_error, before the operation that emits goes on.  The
\* caller's handlers are a script: a sequence of reactions, each to be taken
\* at the next signal if it is of the kind the reaction waits for.  A reaction
\* calls request, request_initial or cancel.  st carries the script that is
\* left and the log of the nested calls, nest.

ReactionSignals == {"response", "response-final"}

Reactions(ds) ==
    [on : ReactionSignals, op : {"request", "cancel"}, d : ds, mechanism : {""}]
    \cup [on : ReactionSignals, op : {"request_initial"}, d : ds,
          mechanism : {"DIGEST-MD5"}]

Scripts(ds) ==
    {<<>>} \cup {<<r>> : r \in Reactions(ds)}
           \cup {<<r1, r2>> : r1 \in Reactions(ds), r2 \in Reactions(ds)}

\* The plugin's fields, the library's sessions and the dictionaries in st.
Snapshot(st) ==
    [gsasl_session |-> st.gsasl_session, session_data |-> st.session_data,
     sessions |-> st.sessions, heap |-> st.heap]

\* free(output), gsignond_dictionary_unref(response), g_error_free(error):
\* what an operation does after it has emitted its signal concerns objects
\* local to it and no field of the plugin.
release_locals(st) == st

RECURSIVE SignalEmit(_, _)
RECURSIVE Handler(_, _)
RECURSIVE do_gsasl_iteration_reentrant(_, _)
RECURSIVE gsignond_sasl_plugin_request_reentrant(_, _)
RECURSIVE gsignond_sasl_plugin_request_initial_reentrant(_, _, _)
RECURSIVE gsignond_sasl_plugin_cancel_reentrant(_)

\* The emission of a signal: the signal, then the handler's reaction to it.
SignalEmit(st, signal) ==
    LET st1 == [st EXCEPT !.signals = Append(@, signal)] IN
    IF st1.script # <<>> /\ Head(st1.script).on = signal.sig
    THEN Handler([st1 EXCEPT !.script = Tail(@)], Head(st1.script))
    ELSE st1

\* The handler's reaction r: the nested call, logged with the state it began
\* in, the state it returned in, and how many signals and library calls there
\* were when it began.
Handler(st, r) ==
    LET res == CASE r.op = "request" ->
                      gsignond_sasl_plugin_request_reentrant(st, r.d)
                 [] r.op = "request_initial" ->
                      gsignond_sasl_plugin_request_initial_reentrant(
                          st, r.d, r.mechanism)
                 [] r.op = "cancel" ->
                      gsignond_sasl_plugin_cancel_reentrant(st)
    IN  [res EXCEPT !.nest = Append(@, [op |-> r.op, on |-> r.on, d |-> r.d,
                                        pos |-> Len(st.signals),
                                        cpos |-> Len(st.calls),
                                        before |-> Snapshot(st),
                                        after |-> Snapshot(res)])]

\* _do_gsasl_iteration that emits response-final before it resets the
\* session.
do_gsasl_iteration_reentrant_emit_first(st, challenge) ==
    LET r == gsasl_step64(st.sessions, st.gsasl_session, challenge,
                          st.heap, st.session_data)
        st1 == [st EXCEPT !.sessions = r.sessions,
                          !.calls = Append(@, <<"gsasl_step64", st.gsasl_session,
                                                 challenge, r.res, r.output>>)]
    IN  IF r.res # "GSASL_OK" /\ r.res # "GSASL_NEEDS_MORE"
        THEN release_locals(
                 SignalEmit(st1, Error("GSIGNOND_ERROR_NOT_AUTHORIZED",
                                       <<"Authorization error %d", r.res>>)))
        ELSE LET response == ("ResponseBase64" :> r.output) IN
             IF r.res = "GSASL_OK"
             THEN release_locals(reset_session(
                      SignalEmit(st1, Response("response-final", response))))
             ELSE release_locals(
                      SignalEmit(st1, Response("response", response)))

do_gsasl_iteration_reentrant(st, challenge) ==
    LET r == gsasl_step64(st.sessions, st.gsasl_session, challenge,
                          st.heap, st.session_data)
        st1 == [st EXCEPT !.sessions = r.sessions,
                          !.calls = Append(@, <<"gsasl_step64", st.gsasl_session,
                                                 challenge, r.res, r.output>>)]
    IN  IF r.res # "GSASL_OK" /\ r.res # "GSASL_NEEDS_MORE"
        THEN release_locals(
                 SignalEmit(st1, Error("GSIGNOND_ERROR_NOT_AUTHORIZED",
                                       <<"Authorization error %d", r.res>>)))
        ELSE LET response == ("ResponseBase64" :> r.output) IN
             IF r.res = "GSASL_OK"
             THEN release_locals(
                      SignalEmit(reset_session(st1),
                                 Response("response-final", response)))
             ELSE release_locals(
                      SignalEmit(st1, Response("response", response)))

gsignond_sasl_plugin_request_reentrant(st, d) ==
    IF st.gsasl_session = NULL
    THEN release_locals(
             SignalEmit(st, Error("GSIGNOND_ERROR_WRONG_STATE",
                                  <<"request_initial needs to be issued first">>)))
    ELSE do_gsasl_iteration_reentrant(st,
             dictionary_get_string(st.heap[d].data, "ChallengeBase64"))

\* request_initial that retains the session data after the iteration.
gsignond_sasl_plugin_request_initial_reentrant_retain_late(st, d, mechanism) ==
    IF st.gsasl_context = NULL
    THEN release_locals(
             SignalEmit(st, Error("GSIGNOND_ERROR_OPERATION_NOT_SUPPORTED",
                                  <<"Couldn't initialize gsasl library">>)))
    ELSE
    LET sd == st.heap[d].data
        realm == gsignond_session_data_get_realm(sd)
        host == dictionary_get_string(sd, "Hostname")
        allowed_realms == gsignond_session_data_get_allowed_realms(sd)
    IN  IF ~IsNull(realm) /\ ~realm_ok(realm, allowed_realms)
        THEN release_locals(
                 SignalEmit(st, Error("GSIGNOND_ERROR_NOT_AUTHORIZED",
                                      <<"Unauthorized realm">>)))
        ELSE IF ~IsNull(host) /\ ~host_ok(host, allowed_realms)
        THEN release_locals(
                 SignalEmit(st, Error("GSIGNOND_ERROR_NOT_AUTHORIZED",
                                      <<"Unauthorized hostname">>)))
        ELSE
        LET st1 == reset_session(st)
            r == gsasl_client_start(st1.sessions, mechanism, FALSE)
            st2 == [st1 EXCEPT !.sessions = r.sessions,
                               !.calls = Append(@, <<"gsasl_client_start",
                                                      mechanism, r.res>>),
                               !.gsasl_session =
                                   IF r.res = "GSASL_OK" THEN r.sid ELSE @]
        IN  IF r.res # "GSASL_OK"
            THEN release_locals(
                     SignalEmit(st2, Error("GSIGNOND_ERROR_OPERATION_NOT_SUPPORTED",
                                <<"Couldn't initialize gsasl session, error %d",
                                  r.res>>)))
            ELSE LET st3 == do_gsasl_iteration_reentrant(
                                [st2 EXCEPT !.session_data = d],
                                dictionary_get_string(sd, "ChallengeBase64"))
                 IN  IF st3.gsasl_session # NULL
                     THEN [st3 EXCEPT !.heap = dictionary_ref(@, d),
                                      !.calls = Append(@, <<"dictionary_ref", d>>),
                                      !.session_data = d]
                     ELSE st3

gsignond_sasl_plugin_request_initial_reentrant(st, d, mechanism) ==
    IF st.gsasl_context = NULL
    THEN release_locals(
             SignalEmit(st, Error("GSIGNOND_ERROR_OPERATION_NOT_SUPPORTED",
                                  <<"Couldn't initialize gsasl library">>)))
    ELSE
    LET sd == st.heap[d].data
        realm == gsignond_session_data_get_realm(sd)
        host == dictionary_get_string(sd, "Hostname")
        allowed_realms == gsignond_session_data_get_allowed_realms(sd)
    IN  IF ~IsNull(realm) /\ ~realm_ok(realm, allowed_realms)
        THEN release_locals(
                 SignalEmit(st, Error("GSIGNOND_ERROR_NOT_AUTHORIZED",
                                      <<"Unauthorized realm">>)))
        ELSE IF ~IsNull(host) /\ ~host_ok(host, allowed_realms)
        THEN release_locals(
                 SignalEmit(st, Error("GSIGNOND_ERROR_NOT_AUTHORIZED",
                                      <<"Unauthorized hostname">>)))
        ELSE
        LET st1 == reset_session(st)
            r == gsasl_client_start(st1.sessions, mechanism, FALSE)
            st2 == [st1 EXCEPT !.sessions = r.sessions,
                               !.calls = Append(@, <<"gsasl_client_start",
                                                      mechanism, r.res>>),
                               !.gsasl_session =
                                   IF r.res = "GSASL_OK" THEN r.sid ELSE @]
        IN  IF r.res # "GSASL_OK"
            THEN release_locals(
                     SignalEmit(st2, Error("GSIGNOND_ERROR_OPERATION_NOT_SUPPORTED",
                                <<"Couldn't initialize gsasl session, error %d",
                                  r.res>>)))
            ELSE do_gsasl_iteration_reentrant(
                     [st2 EXCEPT !.heap = dictionary_ref(@, d),
                                 !.calls = Append(@, <<"dictionary_ref", d>>),
                                 !.session_data = d],
                     dictionary_get_string(sd, "ChallengeBase64"))

gsignond_sasl_plugin_cancel_reentrant(st) ==
    release_locals(
        SignalEmit(st, Error("GSIGNOND_ERROR_SESSION_CANCELED",
                             <<"Session canceled">>)))

\* The state an operation begins in, with the script of the handlers.
BeginReentrant(script) == [script |-> script, nest |-> <<>>] @@ Begin

NoOpReentrant == [op |-> "none", d |-> NULL, mechanism |-> "",
                  gsasl_session |-> NULL, session_data |-> NULL,
                  sessions |-> <<>>, heap |-> <<>>, prev |-> "none",
                  nest |-> <<>>]

EndReentrant(st, op, d, mechanism) ==
    /\ gsasl_context' = st.gsasl_context
    /\ gsasl_session' = st.gsasl_session
    /\ session_data' = st.session_data
    /\ sessions' = st.sessions
    /\ heap' = st.heap
    /\ signals' = st.signals
    /\ calls' = st.calls
    /\ last' = [op |-> op, d |-> d, mechanism |-> mechanism,
                gsasl_session |-> gsasl_session,
                session_data |-> session_data,
                sessions |-> sessions,
                heap |-> heap,
                prev |-> "none",
                nest |-> st.nest]

InitReentrant ==
    /\ \E ok \in BOOLEAN :
          LET self == gsignond_sasl_plugin_init(ok) IN
          /\ gsasl_context = self.gsasl_context
          /\ gsasl_session = self.gsasl_session
          /\ session_data = self.session_data
    /\ sessions = [i \in SessionIds |-> FreeSession]
    /\ heap = [d \in DictIds |-> [refs |-> 0, data |-> EmptyDict]]
    /\ held = {}
    /\ signals = <<>>
    /\ calls = <<>>
    /\ last = NoOpReentrant
    /\ finalized = FALSE

CallerNewReentrant ==
    /\ held = {}
    /\ \E content \in TrackedPool :
          heap' = [heap EXCEPT ![1] = [refs |-> 1, data |-> content]]
    /\ held' = {1}
    /\ signals' = <<>>
    /\ calls' = <<>>
    /\ last' = NoOpReentrant
    /\ UNCHANGED <<gsasl_context, gsasl_session, session_data, sessions, finalized>>

RequestInitialReentrant ==
    /\ \E d \in held, mechanism \in {"ANONYMOUS", "DIGEST-MD5", "SCRAM-SHA-1"},
          script \in Scripts(held) :
          EndReentrant(gsignond_sasl_plugin_request_initial_reentrant(
                           BeginReentrant(script), d, mechanism),
                       "request_initial", d, mechanism)
    /\ UNCHANGED <<held, finalized>>

RequestReentrant ==
    /\ \E d \in held, script \in Scripts(held) :
          EndReentrant(gsignond_sasl_plugin_request_reentrant(
                           BeginReentrant(script), d),
                       "request", d, "")
    /\ UNCHANGED <<held, finalized>>

CancelReentrant ==
    /\ \E script \in Scripts(held) :
          EndReentrant(gsignond_sasl_plugin_cancel_reentrant(BeginReentrant(script)),
                       "cancel", NULL, "")
    /\ UNCHANGED <<held, finalized>>

NextReentrant ==
    \/ CallerNewReentrant
    \/ RequestInitialReentrant
    \/ RequestReentrant
    \/ CancelReentrant

SpecReentrant == InitReentrant /\ [][NextReentrant]_vars

\* The state in which the operation returned whose signal the handler's call
\* number i of the last operation reacted to: the nested calls are logged in
\* the order of their return, so that it is the next one in the log, or the
\* operation itself.
OuterResult(i) ==
    IF i < Len(last.nest) THEN last.nest[i + 1].after ELSE Snapshot(Begin)

\* C31: the session is torn down before response-final is delivered.  When a
\* handler of response-final runs, the plugin has no session and no session
\* data and no session of the library is alive; a request the handler makes
\* emits WRONG_STATE, calls no library function and changes nothing; a
\* request_initial it makes starts a new session without anything to discard,
\* and the operation that emitted the response-final returns in the state
\* the handler's call returned in.
C31_TornDownBeforeFinal ==
    \A i \in 1..Len(last.nest) :
        LET e == last.nest[i] IN
        e.on = "response-final" =>
            /\ signals[e.pos].sig = "response-final"
            /\ e.before.gsasl_session = NULL
            /\ e.before.session_data = NULL
            /\ AliveSessions(e.before.sessions) = {}
            /\ e.op = "request" =>
                  /\ signals[e.pos + 1] =
                        Error("GSIGNOND_ERROR_WRONG_STATE",
                              <<"request_initial needs to be issued first">>)
                  /\ e.after = e.before
                  /\ \A j \in CallsOf("gsasl_step64") : j <= e.cpos
            /\ (e.op = "request_initial" /\ gsasl_context # NULL) =>
                  /\ Len(calls) > e.cpos
                  /\ calls[e.cpos + 1][1] = "gsasl_client_start"
            /\ OuterResult(i) = e.after

\* A handler of response-final called request_initial, which started a new
\* session and got a response; the plugin has that session now.
C31_Witness ==
    /\ last.nest # <<>>
    /\ last.nest[Len(last.nest)].on = "response-final"
    /\ last.nest[Len(last.nest)].op = "request_initial"
    /\ last.nest[Len(last.nest)].after.gsasl_session # NULL
    /\ gsasl_session = last.nest[Len(last.nest)].after.gsasl_session
    /\ gsasl_session \in AliveSessions(sessions)
    /\ signals[Len(signals)].sig = "response"

----------------------------------------------------------------------------
\* C32: a handler of response may call back into the plugin.  When it runs,
\* the plugin has a live session and its session data, and the step of the
\* operation that emitted the response has returned (GSASL_NEEDS_MORE is the
\* last library call); the nested call emits its signal after that response:
\* a request steps the session, a cancel emits SESSION_CANCELED and changes
\* nothing; and the operation that emitted the response returns in the state
\* the nested call returned in.
C32_ReentrantResponse ==
    \A i \in 1..Len(last.nest) :
        LET e == last.nest[i] IN
        e.on = "response" =>
            /\ signals[e.pos].sig = "response"
            /\ e.before.gsasl_session \in AliveSessions(e.before.sessions)
            /\ e.before.session_data # NULL
            /\ e.before.heap[e.before.session_data].refs >= 1
            /\ e.cpos \in CallsOf("gsasl_step64")
            /\ StepResult(e.cpos) = "GSASL_NEEDS_MORE"
            /\ StepSession(e.cpos) = e.before.gsasl_session
            /\ Len(signals) > e.pos
            /\ e.op = "request" =>
                  /\ e.cpos + 1 \in CallsOf("gsasl_step64")
                  /\ StepSession(e.cpos + 1) = e.before.gsasl_session
            /\ e.op = "cancel" =>
                  /\ signals[e.pos + 1].code = "GSIGNOND_ERROR_SESSION_CANCELED"
                  /\ e.after = e.before
            /\ OuterResult(i) = e.after

\* A handler of the response of a request_initial called request, whose step
\* was the last: the request_initial returned without a session, and the
\* response-final came after the response.
C32_Witness ==
    /\ last.op = "request_initial"
    /\ Len(last.nest) = 1
    /\ last.nest[1].on = "response"
    /\ last.nest[1].op = "request"
    /\ Len(signals) = 2
    /\ signals[1].sig = "response"
    /\ signals[2].sig = "response-final"
    /\ gsasl_session = NULL

====
